---- MODULE Spec2Model ----
(***************************************************************************)
(* A model of xml-to-excel-converter-3.py: the TR-181 schema resolution    *)
(* engine (data-type chain resolver, type signature renderer, description  *)
(* reconciler, template/reference overlay, record extraction).             *)
(*                                                                         *)
(* Python strings are sequences of one-character strings, so that          *)
(* lower(), replace(), strip(), the regular expressions and the f-strings  *)
(* are computed character by character.  An XML element is a record        *)
(* [tag, attr, kids, text, tail]; attr is a function from attribute names  *)
(* to strings.  An optional element (the result of find) is a sequence of  *)
(* length 0 or 1.                                                          *)
(***************************************************************************)
EXTENDS Naturals, Integers, Sequences, FiniteSets, TLC

VARIABLES
    root,             \* the schema document: <<tree.getroot()>>, or <<>> when ET.parse raises
    html,             \* html_descriptions: sequence of [key, val], in insertion order
    pc,               \* position inside process_xml_file
    all_data,         \* the records appended so far
    emitted,          \* history: for each record of all_data, <<object index, parameter index>>
    templates,        \* templates dict: sequence of template_data, in insertion order
    references,       \* references dict: function from reference name to target
    objects_found,    \* the object elements, in document order
    oi,               \* index of the object being processed
    parameters_found, \* the parameter elements of the current object
    pi,               \* index of the parameter being processed
    param_data,       \* the record being built by extract_parameter_data
    si,               \* index of the child of the parameter the syntax loop is at
    datatype_name,    \* argument of resolve_datatype_reference
    visited,          \* its visited set
    dt_elem,          \* the definition it found for datatype_name (a sequence of length <= 1)
    elem,             \* walk_base_chain's current element (a sequence of length <= 1)
    resolved_type,    \* walk_base_chain's result (None while unknown)
    trail,            \* history: the definition names walked, in order
    failed,           \* the run ended in an exception handler
    run,              \* which call of process_xml_file this is: 1 or 2
    first_data        \* history: what the first call returned

vars == <<root, html, pc, all_data, emitted, templates, references, objects_found,
          oi, parameters_found, pi, param_data, si, datatype_name, visited, dt_elem,
          elem, resolved_type, trail, failed, run, first_data>>

(***************************************************************************)
(* Strings                                                                 *)
(***************************************************************************)
Str(s) == [i \in 1..Len(s) |-> SubSeq(s, i, i)]

\* Python's None; no string is equal to it.
None == <<"None">>

\* Python truthiness of an optional string.
Truthy(s) == s # None /\ s # <<>>

UpperChars == Str("ABCDEFGHIJKLMNOPQRSTUVWXYZ")

LowerChars == Str("abcdefghijklmnopqrstuvwxyz")

\* the lower-case letter of each upper-case letter
LowerTable ==
    [c \in {UpperChars[i] : i \in 1..Len(UpperChars)} |->
        LowerChars[CHOOSE i \in 1..Len(UpperChars) : UpperChars[i] = c]]

LowerChar(c) == IF c \in DOMAIN LowerTable THEN LowerTable[c] ELSE c

lower(s) == [i \in 1..Len(s) |-> LowerChar(s[i])]

\* s[i:].startswith(t), i counted from 1
StartsWithAt(s, t, i) ==
    /\ i + Len(t) - 1 <= Len(s)
    /\ SubSeq(s, i, i + Len(t) - 1) = t

startswith(s, t) == StartsWithAt(s, t, 1)

endswith(s, t) == Len(t) <= Len(s) /\ SubSeq(s, Len(s) - Len(t) + 1, Len(s)) = t

\* t in s
Contains(s, t) == \E i \in 1..(Len(s) + 1) : StartsWithAt(s, t, i)

RECURSIVE ReplaceFrom(_, _, _, _)
ReplaceFrom(s, old, new, i) ==
    IF i > Len(s) THEN <<>>
    ELSE IF StartsWithAt(s, old, i)
         THEN new \o ReplaceFrom(s, old, new, i + Len(old))
         ELSE <<s[i]>> \o ReplaceFrom(s, old, new, i + 1)

\* s.replace(old, new), old not empty
replace(s, old, new) == ReplaceFrom(s, old, new, 1)

rstrip(s, cs) ==
    LET keep == {k \in 1..Len(s) : s[k] \notin cs}
        n == IF keep = {} THEN 0 ELSE CHOOSE k \in keep : \A j \in keep : j <= k
    IN  SubSeq(s, 1, n)

lstrip(s, cs) ==
    LET keep == {k \in 1..Len(s) : s[k] \notin cs}
        n == IF keep = {} THEN Len(s) + 1 ELSE CHOOSE k \in keep : \A j \in keep : k <= j
    IN  SubSeq(s, n, Len(s))

strip(s, cs) == lstrip(rstrip(s, cs), cs)

\* the characters \s matches and strip() removes
Whitespace == {" ", "\n", "\t", "\r"}

Dot == {"."}

\* s.split(c)[-1]
SplitLast(s, c) ==
    LET at == {k \in 1..Len(s) : s[k] = c}
        n == IF at = {} THEN 0 ELSE CHOOSE k \in at : \A j \in at : j <= k
    IN  SubSeq(s, n + 1, Len(s))

\* s.split(c, 1)[1], for s that contains c
SplitFirstRest(s, c) ==
    LET at == {k \in 1..Len(s) : s[k] = c}
        n == CHOOSE k \in at : \A j \in at : k <= j
    IN  SubSeq(s, n + 1, Len(s))

RECURSIVE Join(_, _)
\* sep.join(parts)
Join(parts, sep) ==
    IF parts = <<>> THEN <<>>
    ELSE IF Len(parts) = 1 THEN parts[1]
    ELSE parts[1] \o sep \o Join(Tail(parts), sep)

RECURSIVE Flatten(_)
\* ''.join(parts)
Flatten(parts) == IF parts = <<>> THEN <<>> ELSE parts[1] \o Flatten(Tail(parts))

(***************************************************************************)
(* ElementTree                                                             *)
(***************************************************************************)
NoAttr == <<>>

\* an element with children and no text
E(tag, attr, kids) == [tag |-> Str(tag), attr |-> attr, kids |-> kids, text |-> None, tail |-> None]

\* an element with text and no children
T(tag, attr, text) == [tag |-> Str(tag), attr |-> attr, kids |-> <<>>, text |-> Str(text), tail |-> None]

\* elem.get(a): None when the attribute is absent
Get(e, a) == IF a \in DOMAIN e.attr THEN e.attr[a] ELSE None

\* elem.get(a, '')
GetOr(e, a) == IF a \in DOMAIN e.attr THEN e.attr[a] ELSE <<>>

RECURSIVE Descendants(_)
\* the elements below e, in document order
Descendants(e) ==
    Flatten([i \in 1..Len(e.kids) |-> <<e.kids[i]>> \o Descendants(e.kids[i])])

\* elem.iter()
iter(e) == <<e>> \o Descendants(e)

\* elem.findall(tag): the direct children of that tag
findall(e, tag) == SelectSeq(e.kids, LAMBDA k : k.tag = Str(tag))

\* elem.findall(".//tag")
findallDeep(e, tag) == SelectSeq(Descendants(e), LAMBDA k : k.tag = Str(tag))

First(s) == IF s = <<>> THEN <<>> ELSE <<s[1]>>

\* elem.find(tag)
find(e, tag) == First(findall(e, tag))

\* elem.find(".//tag")
findDeep(e, tag) == First(findallDeep(e, tag))

RECURSIVE itertext(_)
\* ''.join(elem.itertext())
itertext(e) ==
    (IF e.text = None THEN <<>> ELSE e.text)
    \o Flatten([i \in 1..Len(e.kids) |->
                  itertext(e.kids[i])
                  \o (IF e.kids[i].tail = None THEN <<>> ELSE e.kids[i].tail)])

\* tag.lower().split('}')[-1]
LocalTagLower(e) == SplitLast(lower(e.tag), "}")

\* tag.split('}')[-1].lower()
LowerLocalTag(e) == lower(SplitLast(e.tag, "}"))

(***************************************************************************)
(* Type signature renderer (extract_type_info) and the data-type chain     *)
(***************************************************************************)
\* one <size>/<range> entry: "min:max", "min:" or "max"; nothing without a bound
SizePart(e, lo, hi) ==
    LET a == Get(e, lo)
        b == Get(e, hi)
    IN  IF Truthy(a) /\ Truthy(b) THEN <<a \o Str(":") \o b>>
        ELSE IF Truthy(a) THEN <<a \o Str(":")>>
        ELSE IF Truthy(b) THEN <<b>>
        ELSE <<>>

\* the size entries of a sequence of <size> elements
SizeParts(sizes) ==
    Flatten([i \in 1..Len(sizes) |-> SizePart(sizes[i], "minLength", "maxLength")])

\* size_ranges: the direct <size> children, then the first direct <range> child
SizeRanges(e) ==
    SizeParts(findall(e, "size"))
    \o (IF find(e, "range") = <<>> THEN <<>>
        ELSE SizePart(find(e, "range")[1], "minInclusive", "maxInclusive"))

SquareKinds == {Str("int"), Str("long"), Str("unsignedint")}

\* size_range_str
SizeRangeStr(kind, size_ranges) ==
    IF size_ranges = <<>> THEN <<>>
    ELSE IF kind \in SquareKinds
         THEN Str("[") \o Join(size_ranges, Str(", ")) \o Str("]")
         ELSE Str("(") \o Join(size_ranges, Str(", ")) \o Str(")")

\* [e.get("value") for e in elem.findall("enumeration") if e.get("value") is not None]
EnumValues(e) ==
    LET enums == findall(e, "enumeration")
        withValue == SelectSeq(enums, LAMBDA x : Get(x, "value") # None)
    IN  [i \in 1..Len(withValue) |-> Get(withValue[i], "value")]

\* all(child.tag.lower().split('}')[-1] == "enumeration" for child in elem)
AllChildrenEnumeration(e) ==
    \A i \in 1..Len(e.kids) : LocalTagLower(e.kids[i]) = Str("enumeration")

extract_type_info(e) ==
    LET tag_name_norm == LocalTagLower(e)
        size_ranges == SizeRanges(e)
        size_range_str == SizeRangeStr(tag_name_norm, size_ranges)
        enum_values == EnumValues(e)
        enum_str == Join(enum_values, Str(","))
        suppress == tag_name_norm = Str("string") /\ AllChildrenEnumeration(e)
        base == IF enum_values # <<>>
                THEN (IF suppress THEN Str("string") ELSE Str("enum"))
                ELSE tag_name_norm
        shown == IF enum_values # <<>> /\ suppress THEN <<>> ELSE enum_values
    IN  base
        \o (IF size_ranges # <<>> THEN size_range_str ELSE <<>>)
        \o (IF shown # <<>> THEN Str("[") \o enum_str \o Str("]") ELSE <<>>)

\* the first child, description children skipped, whose extract_type_info is not empty
FirstChildType(e) ==
    LET typed == SelectSeq(e.kids, LAMBDA c : /\ LocalTagLower(c) # Str("description")
                                             /\ Truthy(extract_type_info(c)))
    IN  IF typed = <<>> THEN None ELSE extract_type_info(typed[1])

PrimitiveTags == <<"string", "int", "unsignedInt", "unsignedLong", "hexBinary",
                   "dateTime", "boolean", "list">>

\* the first primitive tag, in the order of the list, found anywhere under e
DeepPrimitiveType(e) ==
    LET hits == SelectSeq(PrimitiveTags,
                          LAMBDA t : /\ findDeep(e, t) # <<>>
                                     /\ Truthy(extract_type_info(findDeep(e, t)[1])))
    IN  IF hits = <<>> THEN None ELSE extract_type_info(findDeep(e, hits[1])[1])

\* walk_base_chain on one element, before it follows the base link
WalkLocal(e) ==
    IF FirstChildType(e) # None THEN FirstChildType(e)
    ELSE IF DeepPrimitiveType(e) # None THEN DeepPrimitiveType(e)
    ELSE IF findall(e, "enumeration") # <<>>
         THEN Str("enum[") \o Join(EnumValues(e), Str(",")) \o Str("]")
    ELSE IF SizeRangeStr(LocalTagLower(e), SizeRanges(e)) # <<>>
         THEN LocalTagLower(e) \o SizeRangeStr(LocalTagLower(e), SizeRanges(e))
    ELSE None

\* the first <dataType> of that name anywhere under the root
FindDataType(xml_root, name) ==
    First(SelectSeq(findallDeep(xml_root, "dataType"), LAMBDA dt : Get(dt, "name") = name))

(***************************************************************************)
(* Paths and text                                                          *)
(***************************************************************************)
normalize_path(path) == strip(replace(lower(path), Str(" "), <<>>), Dot)

\* the first index >= i that holds no whitespace (Len(s) + 1 when there is none)
SkipWhitespace(s, i) ==
    LET rest == {k \in i..Len(s) : s[k] \notin Whitespace}
    IN  IF rest = {} THEN Len(s) + 1 ELSE CHOOSE k \in rest : \A j \in rest : k <= j

RECURSIVE CollapseFrom(_, _)
\* re.sub(r'\s+', ' ', s[i:])
CollapseFrom(s, i) ==
    IF i > Len(s) THEN <<>>
    ELSE IF s[i] \in Whitespace
         THEN Str(" ") \o CollapseFrom(s, SkipWhitespace(s, i))
         ELSE <<s[i]>> \o CollapseFrom(s, i + 1)

clean_text(text) ==
    IF text = None THEN <<>> ELSE strip(CollapseFrom(text, 1), Whitespace)

\* a variant of macro_replacer that drops every macro
macro_dropper(group, param_name, object_path) == <<>>

\* the replacement of one {{macro}}
macro_replacer(group, param_name, object_path) ==
    LET macro == strip(group, Whitespace)
    IN  IF macro = Str("numentries")
        THEN IF Truthy(param_name) /\ endswith(param_name, Str("NumberOfEntries"))
             THEN LET table == replace(param_name, Str("NumberOfEntries"), <<>>)
                      full_table == IF Truthy(object_path) THEN object_path \o table ELSE table
                  IN  Str("The number of entries in the ") \o full_table \o Str(" table.")
             ELSE Str("The number of entries.")
        ELSE IF macro = Str("empty") THEN Str("an empty string")
        ELSE IF macro = Str("pattern") THEN Str("a valid value matching the required pattern")
        ELSE IF macro \in {Str("reference"), Str("referenceName"), Str("noreference")} THEN <<>>
        ELSE IF \/ startswith(macro, Str("param|"))
                \/ startswith(macro, Str("object|"))
                \/ startswith(macro, Str("bibref|"))
             THEN SplitFirstRest(macro, "|")
        ELSE IF startswith(macro, Str("reference|"))
             THEN replace(SplitFirstRest(macro, "|"), Str("{{object}}"),
                          IF Truthy(object_path) THEN rstrip(object_path, Dot)
                          ELSE Str("this object"))
        ELSE <<>>

\* where the match of \{\{(.*?)\}\} that starts at i closes (the index of its "}}"),
\* 0 when no match starts at i: "." matches no newline
MacroClose(text, i) ==
    LET closes == {j \in (i + 2)..Len(text) : StartsWithAt(text, Str("}}"), j)}
        j0 == CHOOSE j \in closes : \A k \in closes : j <= k
    IN  IF ~StartsWithAt(text, Str("{{"), i) \/ closes = {} THEN 0
        ELSE IF \E k \in (i + 2)..(j0 - 1) : text[k] = "\n" THEN 0
        ELSE j0

RECURSIVE MacroSubFrom(_, _, _, _)
\* re.sub(r"\{\{(.*?)\}\}", macro_replacer, text[i:])
MacroSubFrom(text, i, param_name, object_path) ==
    IF i > Len(text) THEN <<>>
    ELSE IF MacroClose(text, i) # 0
         THEN macro_replacer(SubSeq(text, i + 2, MacroClose(text, i) - 1), param_name, object_path)
              \o MacroSubFrom(text, MacroClose(text, i) + 2, param_name, object_path)
         ELSE <<text[i]>> \o MacroSubFrom(text, i + 1, param_name, object_path)

substitute_macros(text, param_name, object_path) ==
    IF ~Truthy(text) THEN <<>>
    ELSE strip(MacroSubFrom(text, 1, param_name, object_path), Whitespace)

(***************************************************************************)
(* html_descriptions (a dict, in insertion order)                          *)
(***************************************************************************)
DictHas(d, k) == \E i \in 1..Len(d) : d[i].key = k

DictGet(d, k) == d[CHOOSE i \in 1..Len(d) : d[i].key = k].val

Sentinel == Str("No HTML or XML description available")

\* the full path of a parameter, sanitized
FullPath(parent_object_name, name) ==
    rstrip(strip(replace(rstrip(parent_object_name, Dot) \o Str(".") \o name, Str(" "), <<>>),
                 Dot), Dot)

\* the keys whose {i}-stripped form equals the {i}-stripped path, in dict order
RelaxedMatches(html_descriptions, normalized) ==
    SelectSeq(html_descriptions,
              LAMBDA kv : replace(normalized, Str("{i}"), <<>>) = replace(kv.key, Str("{i}"), <<>>))

\* the description children of a parameter
DescriptionChildren(param_elem) ==
    SelectSeq(param_elem.kids, LAMBDA c : Contains(lower(c.tag), Str("description")))

\* the Description extract_parameter_data sets before it reads the syntax
ParamDescription(param_elem, name, parent_object_name, html_descriptions) ==
    LET normalized == normalize_path(FullPath(parent_object_name, name))
        relaxed == RelaxedMatches(html_descriptions, normalized)
        descs == DescriptionChildren(param_elem)
    IN  IF DictHas(html_descriptions, normalized) THEN DictGet(html_descriptions, normalized)
        ELSE IF relaxed # <<>> THEN relaxed[1].val
        ELSE IF descs # <<>>
             THEN clean_text(substitute_macros(itertext(descs[Len(descs)]), name,
                                               parent_object_name))
        ELSE Sentinel

(***************************************************************************)
(* extract_parameter_data: the syntax block                                *)
(***************************************************************************)
\* "for value_elem in type_elem: if 'value' in tag and text: Object Default = text.strip()"
ValueDefault(type_elem, dflt) ==
    LET vals == SelectSeq(type_elem.kids,
                          LAMBDA v : Contains(lower(v.tag), Str("value")) /\ Truthy(v.text))
    IN  IF vals = <<>> THEN dflt ELSE strip(vals[Len(vals)].text, Whitespace)

RECURSIVE DefaultScan(_, _, _)
\* the first loop over the children of <syntax>: defaults are read up to the first
\* <dataType>, whose ref ends the loop.  The result is [dflt, ref].
DefaultScan(kids, i, dflt) ==
    IF i > Len(kids) THEN [dflt |-> dflt, ref |-> None]
    ELSE LET type_elem == kids[i]
             tag_name == LowerLocalTag(type_elem)
         IN  IF tag_name = Str("default")
             THEN DefaultScan(kids, i + 1,
                              IF Get(type_elem, "value") # None THEN Get(type_elem, "value")
                              ELSE IF Truthy(type_elem.text)
                                   THEN strip(type_elem.text, Whitespace)
                                   ELSE dflt)
             ELSE IF tag_name = Str("datatype")
                  THEN [dflt |-> dflt, ref |-> Get(type_elem, "ref")]
                  ELSE DefaultScan(kids, i + 1, dflt)

\* a variant of HexFormatted that reads only the direct <size> children
HexFormattedDirect(type_elem) ==
    LET size_parts == SizeParts(findall(type_elem, "size"))
    IN  IF size_parts # <<>>
        THEN Str("hexbinary(") \o Join(size_parts, Str(", ")) \o Str(")")
        ELSE Str("hexbinary")

\* f"hexbinary({', '.join(size_parts)})" over every <size> below the element
HexFormatted(type_elem) ==
    LET size_parts == SizeParts(findallDeep(type_elem, "size"))
    IN  IF size_parts # <<>>
        THEN Str("hexbinary(") \o Join(size_parts, Str(", ")) \o Str(")")
        ELSE Str("hexbinary")

NumberKinds == {Str("int"), Str("unsignedint"), Str("long"), Str("unsignedlong")}

InlineStart(dflt) ==
    [is_list |-> FALSE, data_type |-> <<>>, formatted_type |-> <<>>,
     size_elem |-> <<>>, range_elem |-> <<>>, dflt |-> dflt]

\* one iteration of the second loop over the children of <syntax>
InlineStep(st, type_elem) ==
    LET tag_name == LowerLocalTag(type_elem)
        hex == SelectSeq(type_elem.kids, LAMBDA c : LowerLocalTag(c) = Str("hexbinary"))
    IN  IF tag_name = Str("default") THEN st
        ELSE IF tag_name = Str("list")
             THEN LET listed == [st EXCEPT !.is_list = TRUE,
                                           !.size_elem = findDeep(type_elem, "size"),
                                           !.range_elem = findDeep(type_elem, "range")]
                  IN  IF hex # <<>>
                      THEN [listed EXCEPT !.data_type = Str("hexbinary"),
                                          !.formatted_type = HexFormatted(hex[1])]
                      ELSE listed
        ELSE IF tag_name \in ({Str("string")} \cup NumberKinds)
             THEN [st EXCEPT !.data_type = tag_name,
                             !.size_elem = IF st.is_list THEN @ ELSE findDeep(type_elem, "size"),
                             !.range_elem = IF st.is_list THEN @ ELSE findDeep(type_elem, "range"),
                             !.dflt = ValueDefault(type_elem, @)]
        ELSE IF tag_name = Str("hexbinary")
             THEN [st EXCEPT !.data_type = tag_name,
                             !.formatted_type = HexFormatted(type_elem),
                             !.dflt = ValueDefault(type_elem, @)]
        ELSE IF tag_name # Str("datatype")
             THEN [st EXCEPT !.data_type = tag_name,
                             !.formatted_type = tag_name,
                             !.dflt = ValueDefault(type_elem, @)]
        ELSE st

RECURSIVE InlineLoop(_, _, _)
InlineLoop(kids, i, st) ==
    IF i > Len(kids) THEN st ELSE InlineLoop(kids, i + 1, InlineStep(st, kids[i]))

\* string: "(min:max)" or "(max)" from the first size found
StringFormatted(st) ==
    IF st.size_elem = <<>> THEN st.data_type
    ELSE LET min_len == Get(st.size_elem[1], "minLength")
             max_len == Get(st.size_elem[1], "maxLength")
         IN  IF Truthy(min_len) /\ Truthy(max_len)
             THEN st.data_type \o Str("(") \o min_len \o Str(":") \o max_len \o Str(")")
             ELSE IF Truthy(max_len)
                  THEN st.data_type \o Str("(") \o max_len \o Str(")")
                  ELSE st.data_type

\* a range rendered between the two brackets given
RangeFormatted(st, open, close) ==
    LET min_val == Get(st.range_elem[1], "minInclusive")
        max_val == Get(st.range_elem[1], "maxInclusive")
    IN  IF Truthy(min_val) /\ Truthy(max_val)
        THEN st.data_type \o Str(open) \o min_val \o Str(":") \o max_val \o Str(close)
        ELSE IF Truthy(min_val)
             THEN st.data_type \o Str(open) \o min_val \o Str(":") \o Str(close)
        ELSE IF Truthy(max_val)
             THEN st.data_type \o Str(open) \o Str(":") \o max_val \o Str(close)
        ELSE st.data_type

\* formatted_type after the list branch
ListFormatted(st) ==
    IF st.data_type = Str("string") THEN StringFormatted(st)
    ELSE IF st.data_type \in NumberKinds
         THEN IF st.range_elem = <<>> THEN st.data_type
              ELSE IF st.data_type = Str("unsignedint")
                   THEN RangeFormatted(st, "[", "]")
                   ELSE RangeFormatted(st, "(", ")")
    ELSE IF st.data_type = Str("hexbinary")
         THEN IF st.formatted_type = <<>> THEN st.data_type ELSE st.formatted_type
    ELSE st.data_type

\* formatted_type after the non-list branch
NonListFormatted(st) ==
    IF st.data_type = Str("string") THEN StringFormatted(st)
    ELSE IF st.data_type \in NumberKinds
         THEN IF st.range_elem = <<>> THEN st.data_type
              ELSE IF st.data_type \in SquareKinds
                   THEN RangeFormatted(st, "[", "]")
                   ELSE st.data_type
    ELSE IF st.formatted_type = <<>> THEN st.data_type ELSE st.formatted_type

\* the Data Type an inline syntax block gives
InlineDataType(st) ==
    LET formatted_type == IF st.is_list THEN ListFormatted(st) ELSE NonListFormatted(st)
    IN  IF formatted_type # <<>> THEN formatted_type ELSE st.data_type

(***************************************************************************)
(* Templates and references                                                *)
(***************************************************************************)
TemplateHas(templates_dict, name) == \E i \in 1..Len(templates_dict) : templates_dict[i].name = name

TemplateGet(templates_dict, name) ==
    templates_dict[CHOOSE i \in 1..Len(templates_dict) : templates_dict[i].name = name]

\* a variant of OverrideIfNotSet that overwrites a field already set
OverrideAlways(current, candidate) == IF Truthy(candidate) THEN candidate ELSE current

\* "if not current and candidate: current = candidate"
OverrideIfNotSet(current, candidate) ==
    IF ~Truthy(current) /\ Truthy(candidate) THEN candidate ELSE current

\* a variant of FillEmpty in which the value of the parent replaces that of the child
FillFromParent(data, parent_data) ==
    [data EXCEPT !.description = OverrideAlways(@, parent_data.description),
                 !.data_type = OverrideAlways(@, parent_data.data_type),
                 !.default_value = OverrideAlways(@, parent_data.default_value)]

\* fill the fields of data that are still empty from parent_data
FillEmpty(data, parent_data) ==
    [data EXCEPT !.description = IF ~Truthy(@) /\ Truthy(parent_data.description)
                                 THEN parent_data.description ELSE @,
                 !.data_type = IF ~Truthy(@) /\ Truthy(parent_data.data_type)
                               THEN parent_data.data_type ELSE @,
                 !.default_value = IF ~Truthy(@) /\ Truthy(parent_data.default_value)
                                   THEN parent_data.default_value ELSE @]

\* the recursion of extract_template_data never returns: RecursionError
RecursionError == [error |-> "RecursionError"]

RECURSIVE TemplateWalk(_, _, _)
\* extract_template_data, with the names of the calls in progress: a name met again
\* is a recursion that never ends.  None for an unknown name.
TemplateWalk(template_name, templates_dict, active) ==
    IF ~TemplateHas(templates_dict, template_name) THEN <<>>
    ELSE IF template_name \in active THEN <<RecursionError>>
    ELSE LET template_data == TemplateGet(templates_dict, template_name)
             data == [description |-> template_data.description,
                      data_type |-> template_data.data_type,
                      default_value |-> template_data.default_value]
             parent_template == template_data.template
             parent_data == TemplateWalk(parent_template, templates_dict,
                                         active \cup {template_name})
         IN  IF ~Truthy(parent_template) THEN <<data>>
             ELSE IF parent_data = <<>> THEN <<data>>
             ELSE IF parent_data[1] = RecursionError THEN parent_data
             ELSE <<FillEmpty(data, parent_data[1])>>

\* a sequence of length 0 (None), or 1: the data, or RecursionError
extract_template_data(template_name, templates_dict) ==
    TemplateWalk(template_name, templates_dict, {})

DescriptionTemplateChildren(template_elem) ==
    SelectSeq(template_elem.kids, LAMBDA c : Contains(lower(c.tag), Str("description")))

SyntaxChildren(e) == SelectSeq(e.kids, LAMBDA c : Contains(lower(c.tag), Str("syntax")))

\* data_type and default_value after one <syntax> child of a template
TemplateSyntax(syntax_elem, data_type, default_value) ==
    IF syntax_elem.kids = <<>> THEN [data_type |-> data_type, default_value |-> default_value]
    ELSE LET type_elem == syntax_elem.kids[1]
             vals == SelectSeq(type_elem.kids,
                               LAMBDA v : Contains(lower(v.tag), Str("value")) /\ Truthy(v.text))
             by_attr == IF Truthy(GetOr(type_elem, "value")) THEN GetOr(type_elem, "value")
                        ELSE default_value
         IN  [data_type |-> SplitLast(type_elem.tag, "}"),
              default_value |-> IF vals = <<>> THEN by_attr ELSE vals[Len(vals)].text]

RECURSIVE TemplateSyntaxLoop(_, _, _)
TemplateSyntaxLoop(syntaxes, i, acc) ==
    IF i > Len(syntaxes) THEN acc
    ELSE TemplateSyntaxLoop(syntaxes, i + 1,
                            TemplateSyntax(syntaxes[i], acc.data_type, acc.default_value))

extract_template_data_from_xml(template_elem) ==
    LET descs == DescriptionTemplateChildren(template_elem)
        syn == TemplateSyntaxLoop(SyntaxChildren(template_elem), 1,
                                  [data_type |-> <<>>, default_value |-> <<>>])
    IN  [name |-> GetOr(template_elem, "name"),
         ref |-> GetOr(template_elem, "ref"),
         template |-> GetOr(template_elem, "template"),
         description |-> IF descs # <<>> /\ Truthy(descs[1].text)
                         THEN clean_text(descs[1].text) ELSE <<>>,
         data_type |-> syn.data_type,
         default_value |-> syn.default_value]

\* templates[name] = template_data: a new key goes last, a known key keeps its place
DictPut(d, rec) ==
    IF TemplateHas(d, rec.name)
    THEN [i \in 1..Len(d) |-> IF d[i].name = rec.name THEN rec ELSE d[i]]
    ELSE Append(d, rec)

RECURSIVE FirstPass(_, _, _)
\* first pass: the templates that have a name
FirstPass(found, i, d) ==
    IF i > Len(found) THEN d
    ELSE LET template_data == extract_template_data_from_xml(found[i])
         IN  FirstPass(found, i + 1,
                       IF Truthy(template_data.name) THEN DictPut(d, template_data) ELSE d)

RECURSIVE SecondPass(_, _)
\* second pass: each template, in dict order, is filled from its parent as it is then
SecondPass(d, i) ==
    IF i > Len(d) THEN d
    ELSE IF Truthy(d[i].template) /\ TemplateHas(d, d[i].template)
         THEN SecondPass([d EXCEPT ![i] = FillEmpty(@, TemplateGet(d, d[i].template))], i + 1)
         ELSE SecondPass(d, i + 1)

resolve_reference(ref_name, references_dict) ==
    IF ref_name \in DOMAIN references_dict
    THEN <<[description |-> Str("Reference to: ") \o references_dict[ref_name],
            data_type |-> <<>>]>>
    ELSE <<>>

(***************************************************************************)
(* extract_object_data and the tables of process_xml_file                  *)
(***************************************************************************)
DmDescription == "{urn:broadband-forum-org:cwmp:datamodel-1-14}description"

extract_object_data(obj_elem, html_descriptions) ==
    LET name == GetOr(obj_elem, "name")
        full_path == IF endswith(name, Str(".")) THEN name ELSE name \o Str(".")
        normalized == normalize_path(full_path)
        desc_elem == find(obj_elem, DmDescription)
    IN  [Object_Name |-> name,
         Access |-> GetOr(obj_elem, "access"),
         Min_Entries |-> GetOr(obj_elem, "minEntries"),
         Max_Entries |-> GetOr(obj_elem, "maxEntries"),
         Version |-> GetOr(obj_elem, "version"),
         Description |-> IF DictHas(html_descriptions, normalized)
                         THEN DictGet(html_descriptions, normalized)
                         ELSE IF desc_elem # <<>> /\ Truthy(desc_elem[1].text)
                              THEN clean_text(desc_elem[1].text)
                              ELSE <<>>,
         Is_Object |-> TRUE]

\* the first child of the root whose tag contains "model"
ModelOf(xml_root) == First(SelectSeq(xml_root.kids, LAMBDA c : Contains(lower(c.tag), Str("model"))))

TemplatesFound(xml_root) == SelectSeq(xml_root.kids, LAMBDA c : Contains(lower(c.tag), Str("template")))

ReferencesFound(model) == SelectSeq(iter(model), LAMBDA c : Contains(lower(c.tag), Str("reference")))

ObjectsFound(model) == SelectSeq(iter(model), LAMBDA c : Contains(lower(c.tag), Str("object")))

ParametersFound(obj_elem) ==
    SelectSeq(obj_elem.kids, LAMBDA c : Contains(lower(c.tag), Str("parameter")))

RECURSIVE ReferenceTable(_, _, _)
\* references[ref_name] = ref_target, for the references that have both
ReferenceTable(found, i, refs) ==
    IF i > Len(found) THEN refs
    ELSE LET ref_name == GetOr(found[i], "name")
             ref_target == GetOr(found[i], "targetParamRef")
         IN  ReferenceTable(found, i + 1,
                            IF Truthy(ref_name) /\ Truthy(ref_target)
                            THEN (ref_name :> ref_target) @@ refs
                            ELSE refs)

\* a variant of Degenerate that drops only the empty name
DegenerateEmptyOnly(x) == ~Truthy(x)

\* "not x or x.strip() == '.'"
Degenerate(x) == ~Truthy(x) \/ strip(x, Whitespace) = Str(".")

\* a variant of BaseToFollow that does not look at the visited set
BaseToFollowUnguarded(e, seen) == IF Truthy(Get(e, "base")) THEN Get(e, "base") ELSE None

\* the base link walk_base_chain follows from e: None when there is none to follow
BaseToFollow(e, seen) ==
    IF Truthy(Get(e, "base")) /\ Get(e, "base") \notin seen THEN Get(e, "base") ELSE None

(***************************************************************************)
(* process_xml_file, step by step                                          *)
(***************************************************************************)
NoRecord == [Is_Object |-> FALSE]

Idle ==
    /\ all_data = <<>> /\ emitted = <<>> /\ templates = <<>> /\ references = <<>>
    /\ objects_found = <<>> /\ oi = 0 /\ parameters_found = <<>> /\ pi = 0
    /\ param_data = NoRecord /\ si = 0 /\ datatype_name = None /\ visited = {}
    /\ dt_elem = <<>> /\ elem = <<>> /\ resolved_type = None /\ trail = <<>>
    /\ failed = FALSE

\* ET.parse and the search for the model element
FindModel ==
    /\ pc = "parse"
    /\ IF root = <<>>
       THEN pc' = "done" /\ failed' = TRUE
       ELSE /\ pc' = IF ModelOf(root[1]) = <<>> THEN "done" ELSE "templates"
            /\ failed' = failed
    /\ UNCHANGED <<root, html, run, first_data, all_data, emitted, templates, references, objects_found, oi,
                   parameters_found, pi, param_data, si, datatype_name, visited, dt_elem,
                   elem, resolved_type, trail>>

\* the two passes over the templates
ExtractTemplates ==
    /\ pc = "templates"
    /\ templates' = SecondPass(FirstPass(TemplatesFound(root[1]), 1, <<>>), 1)
    /\ pc' = "references"
    /\ UNCHANGED <<root, html, run, first_data, all_data, emitted, references, objects_found, oi,
                   parameters_found, pi, param_data, si, datatype_name, visited, dt_elem,
                   elem, resolved_type, trail, failed>>

ExtractReferences ==
    /\ pc = "references"
    /\ references' = ReferenceTable(ReferencesFound(ModelOf(root[1])[1]), 1, <<>>)
    /\ pc' = "objects"
    /\ UNCHANGED <<root, html, run, first_data, all_data, emitted, templates, objects_found, oi,
                   parameters_found, pi, param_data, si, datatype_name, visited, dt_elem,
                   elem, resolved_type, trail, failed>>

FindObjects ==
    /\ pc = "objects"
    /\ objects_found' = ObjectsFound(ModelOf(root[1])[1])
    /\ oi' = 1
    /\ pc' = "object"
    /\ UNCHANGED <<root, html, run, first_data, all_data, emitted, templates, references,
                   parameters_found, pi, param_data, si, datatype_name, visited, dt_elem,
                   elem, resolved_type, trail, failed>>

\* one iteration of "for obj_elem in objects_found", up to its parameter loop
ProcessObject ==
    /\ pc = "object"
    /\ IF oi > Len(objects_found)
       THEN /\ pc' = "done"
            /\ UNCHANGED <<all_data, emitted, oi, parameters_found, pi>>
       ELSE LET obj_data == extract_object_data(objects_found[oi], html)
            IN  IF Degenerate(obj_data.Object_Name)
                THEN /\ oi' = oi + 1
                     /\ UNCHANGED <<pc, all_data, emitted, parameters_found, pi>>
                ELSE /\ all_data' = Append(all_data, obj_data)
                     /\ emitted' = Append(emitted, <<oi, 0>>)
                     /\ parameters_found' = ParametersFound(objects_found[oi])
                     /\ pi' = 1
                     /\ pc' = "param"
                     /\ oi' = oi
    /\ UNCHANGED <<root, html, run, first_data, templates, references, objects_found, param_data, si,
                   datatype_name, visited, dt_elem, elem, resolved_type, trail, failed>>

\* extract_parameter_data up to its syntax loop: the attributes, the full path,
\* the description
ParamBegin ==
    /\ pc = "param"
    /\ IF pi > Len(parameters_found)
       THEN /\ oi' = oi + 1
            /\ pc' = "object"
            /\ UNCHANGED <<param_data, si>>
       ELSE LET param_elem == parameters_found[pi]
                name == GetOr(param_elem, "name")
                parent_object_name == GetOr(objects_found[oi], "name")
            IN  /\ param_data' = [Object_Name |-> parent_object_name,
                                  Parameter_Name |-> name,
                                  Full_Path |-> FullPath(parent_object_name, name),
                                  Access |-> GetOr(param_elem, "access"),
                                  Version |-> GetOr(param_elem, "version"),
                                  Description |-> ParamDescription(
                                      param_elem, name, parent_object_name, html),
                                  Data_Type |-> <<>>,
                                  Object_Default |-> <<>>,
                                  Is_Object |-> FALSE]
                /\ si' = 1
                /\ pc' = "syntax"
                /\ oi' = oi
    /\ UNCHANGED <<root, html, run, first_data, all_data, emitted, templates, references, objects_found,
                   parameters_found, pi, datatype_name, visited, dt_elem, elem,
                   resolved_type, trail, failed>>

\* one iteration of "for syntax_elem in param_elem": a child that is no syntax block
\* is passed over; a syntax block that names a dataType reference calls the resolver;
\* any other syntax block is rendered inline
SyntaxStep ==
    /\ pc = "syntax"
    /\ IF si > Len(parameters_found[pi].kids)
       THEN /\ pc' = "template"
            /\ UNCHANGED <<param_data, si, datatype_name>>
       ELSE LET syntax_elem == parameters_found[pi].kids[si]
                scan == DefaultScan(syntax_elem.kids, 1, param_data.Object_Default)
                st == InlineLoop(syntax_elem.kids, 1, InlineStart(scan.dflt))
            IN  IF ~Contains(lower(syntax_elem.tag), Str("syntax"))
                THEN /\ si' = si + 1
                     /\ UNCHANGED <<pc, param_data, datatype_name>>
                ELSE IF Truthy(scan.ref)
                     THEN /\ param_data' = [param_data EXCEPT !.Object_Default = scan.dflt]
                          /\ datatype_name' = scan.ref
                          /\ pc' = "resolve"
                          /\ si' = si
                     ELSE /\ param_data' = [param_data EXCEPT !.Object_Default = st.dflt,
                                                              !.Data_Type = InlineDataType(st)]
                          /\ si' = si + 1
                          /\ UNCHANGED <<pc, datatype_name>>
    /\ UNCHANGED <<root, html, run, first_data, all_data, emitted, templates, references, objects_found, oi,
                   parameters_found, pi, visited, dt_elem, elem, resolved_type, trail, failed>>

\* a variant of DefaultVisited in which a call starts from the set of the call before
SharedVisited(previous) == previous

\* "if visited is None: visited = set()": the call from extract_parameter_data passes
\* no set, and starts from an empty one whatever the call before has left
DefaultVisited(previous) == {}

\* resolve_datatype_reference up to the call of walk_base_chain
ResolveEnter ==
    /\ pc = "resolve"
    /\ IF datatype_name \in DefaultVisited(visited)
       THEN /\ visited' = DefaultVisited(visited)
            /\ dt_elem' = <<>>
       ELSE /\ visited' = DefaultVisited(visited) \cup {datatype_name}
            /\ dt_elem' = FindDataType(root[1], datatype_name)
    /\ elem' = dt_elem'
    /\ resolved_type' = None
    /\ trail' = IF dt_elem' = <<>> THEN <<>> ELSE <<datatype_name>>
    /\ pc' = IF dt_elem' = <<>> THEN "return" ELSE "walk"
    /\ UNCHANGED <<root, html, run, first_data, all_data, emitted, templates, references, objects_found, oi,
                   parameters_found, pi, param_data, si, datatype_name, failed>>

\* one call of walk_base_chain: its result, or the call on the base definition
WalkBaseChain ==
    /\ pc = "walk"
    /\ LET base == BaseToFollow(elem[1], visited)
           parent_elem == FindDataType(root[1], base)
       IN  IF WalkLocal(elem[1]) # None
           THEN /\ resolved_type' = WalkLocal(elem[1])
                /\ pc' = "return"
                /\ UNCHANGED <<visited, elem, trail>>
           ELSE IF base = None
                THEN /\ pc' = "return"
                     /\ UNCHANGED <<visited, elem, trail, resolved_type>>
                ELSE /\ visited' = visited \cup {base}
                     /\ IF parent_elem # <<>>
                        THEN /\ elem' = parent_elem
                             /\ trail' = Append(trail, base)
                             /\ UNCHANGED <<pc, resolved_type>>
                        ELSE /\ pc' = "return"
                             /\ UNCHANGED <<elem, trail, resolved_type>>
    /\ UNCHANGED <<root, html, run, first_data, all_data, emitted, templates, references, objects_found, oi,
                   parameters_found, pi, param_data, si, datatype_name, dt_elem, failed>>

\* what resolve_datatype_reference returns once walk_base_chain has returned
ResolveResult(found, walked) ==
    IF found = <<>> THEN None
    ELSE IF Truthy(walked) THEN walked
    ELSE FirstChildType(found[1])

\* a variant of ReferencedDataType without the ref(...) placeholder
ReferencedDataTypeOrEmpty(resolved, name) == IF Truthy(resolved) THEN resolved ELSE <<>>

\* the Data Type of a parameter that names a dataType reference
ReferencedDataType(resolved, name) ==
    IF Truthy(resolved) THEN resolved ELSE Str("ref(") \o name \o Str(")")

\* the return of resolve_datatype_reference into extract_parameter_data
ResolveReturn ==
    /\ pc = "return"
    /\ param_data' = [param_data EXCEPT !.Data_Type =
                         ReferencedDataType(ResolveResult(dt_elem, resolved_type),
                                            datatype_name)]
    /\ si' = si + 1
    /\ pc' = "syntax"
    /\ UNCHANGED <<root, html, run, first_data, all_data, emitted, templates, references, objects_found, oi,
                   parameters_found, pi, datatype_name, visited, dt_elem, elem,
                   resolved_type, trail, failed>>

\* "if template_ref": the fields still empty are filled from the template chain; a
\* recursion without end leaves process_xml_file through "except Exception"
TemplateOverlay ==
    /\ pc = "template"
    /\ LET template_ref == GetOr(parameters_found[pi], "template")
           template_data == extract_template_data(template_ref, templates)
       IN  IF ~Truthy(template_ref) \/ template_data = <<>>
           THEN /\ pc' = "reference"
                /\ UNCHANGED <<param_data, failed>>
           ELSE IF template_data[1] = RecursionError
                THEN /\ pc' = "done"
                     /\ failed' = TRUE
                     /\ UNCHANGED param_data
                ELSE /\ param_data' =
                            [param_data EXCEPT
                               !.Description = OverrideIfNotSet(@, template_data[1].description),
                               !.Data_Type = OverrideIfNotSet(@, template_data[1].data_type),
                               !.Object_Default =
                                   OverrideIfNotSet(@, template_data[1].default_value)]
                     /\ pc' = "reference"
                     /\ UNCHANGED failed
    /\ UNCHANGED <<root, html, run, first_data, all_data, emitted, templates, references, objects_found, oi,
                   parameters_found, pi, si, datatype_name, visited, dt_elem, elem,
                   resolved_type, trail>>

\* "if ref": the fields still empty are filled from the reference
ReferenceOverlay ==
    /\ pc = "reference"
    /\ LET ref == GetOr(parameters_found[pi], "ref")
           ref_data == resolve_reference(ref, references)
       IN  IF ~Truthy(ref) \/ ref_data = <<>>
           THEN UNCHANGED param_data
           ELSE param_data' =
                    [param_data EXCEPT
                       !.Description = IF ~Truthy(@) THEN ref_data[1].description ELSE @,
                       !.Data_Type = IF ~Truthy(@) THEN ref_data[1].data_type ELSE @,
                       !.Object_Default = IF ~Truthy(@) THEN <<>> ELSE @]
    /\ pc' = "emit"
    /\ UNCHANGED <<root, html, run, first_data, all_data, emitted, templates, references, objects_found, oi,
                   parameters_found, pi, si, datatype_name, visited, dt_elem, elem,
                   resolved_type, trail, failed>>

\* the record is appended unless its name or full path is empty or "."
EmitParameter ==
    /\ pc = "emit"
    /\ IF Degenerate(param_data.Parameter_Name) \/ Degenerate(param_data.Full_Path)
       THEN UNCHANGED <<all_data, emitted>>
       ELSE /\ all_data' = Append(all_data, param_data)
            /\ emitted' = Append(emitted, <<oi, pi>>)
    /\ pi' = pi + 1
    /\ pc' = "param"
    /\ UNCHANGED <<root, html, run, first_data, templates, references, objects_found, oi, parameters_found,
                   param_data, si, datatype_name, visited, dt_elem, elem, resolved_type,
                   trail, failed>>

\* process_xml_file is called again on the same schema source and documentation
\* index: all_data, templates and references are new, as every local of the call is
Rerun ==
    /\ pc = "done"
    /\ run = 1
    /\ run' = 2
    /\ first_data' = all_data
    /\ pc' = "parse"
    /\ all_data' = <<>> /\ emitted' = <<>> /\ templates' = <<>> /\ references' = <<>>
    /\ objects_found' = <<>> /\ oi' = 0 /\ parameters_found' = <<>> /\ pi' = 0
    /\ param_data' = NoRecord /\ si' = 0 /\ failed' = FALSE
    /\ UNCHANGED <<root, html, datatype_name, visited, dt_elem, elem, resolved_type, trail>>

Next ==
    \/ FindModel
    \/ ExtractTemplates
    \/ ExtractReferences
    \/ FindObjects
    \/ ProcessObject
    \/ ParamBegin
    \/ SyntaxStep
    \/ ResolveEnter
    \/ WalkBaseChain
    \/ ResolveReturn
    \/ TemplateOverlay
    \/ ReferenceOverlay
    \/ EmitParameter
    \/ Rerun

(***************************************************************************)
(* The schema documents and documentation indexes the runs start from      *)
(***************************************************************************)
A1(k, v) == k :> Str(v)

Document(data_types, template_elems, objects) ==
    E("{urn:broadband-forum-org:cwmp:datamodel-1-14}document", NoAttr,
      data_types \o template_elems \o <<E("model", A1("name", "Device:2.19"), objects)>>)

Object(name, kids) == E("object", A1("name", name) @@ A1("access", "readOnly"), kids)

Parameter(name, attr, kids) == E("parameter", A1("name", name) @@ attr, kids)

Syntax(kids) == E("syntax", NoAttr, kids)

DataTypeRef(name) == E("dataType", A1("ref", name), <<>>)

Size(lo, hi) ==
    E("size", (IF lo = "" THEN NoAttr ELSE A1("minLength", lo))
              @@ (IF hi = "" THEN NoAttr ELSE A1("maxLength", hi)), <<>>)

Range(lo, hi) ==
    E("range", (IF lo = "" THEN NoAttr ELSE A1("minInclusive", lo))
               @@ (IF hi = "" THEN NoAttr ELSE A1("maxInclusive", hi)), <<>>)

Enumeration(v) == E("enumeration", A1("value", v), <<>>)

Description(text) == T("description", NoAttr, text)

\* the number of data-type definitions of a definition table
MaxDefs == 3

NamePool == <<"A", "B", "C", "D", "E", "F">>

DefNames == {NamePool[i] : i \in 1..MaxDefs}

\* a base attribute: none, or a defined name; the last definition of a table may
\* also name a base that is not defined
BaseChoices(i) == {""} \cup DefNames \cup (IF i = MaxDefs THEN {"U"} ELSE {})

BaseAssignments == {bases \in [1..MaxDefs -> {""} \cup DefNames \cup {"U"}] :
                       \A i \in 1..MaxDefs : bases[i] \in BaseChoices(i)}

StringPrimitive == E("string", NoAttr, <<Size("", "64")>>)

DataType(name, base, body) ==
    E("dataType", A1("name", name) @@ (IF base = "" THEN NoAttr ELSE A1("base", base)), body)

\* a table of MaxDefs definitions with the bases given; the definition at prim_at
\* (none when 0) embeds a string primitive, the others hold only a description
DefinitionTable(bases, prim_at) ==
    [i \in 1..MaxDefs |->
        DataType(NamePool[i], bases[i],
                 IF i = prim_at THEN <<Description("a type"), StringPrimitive>>
                 ELSE <<Description("a type")>>)]

TypedBy(start) ==
    <<Object("Device.Test.", <<Parameter("Value", NoAttr, <<Syntax(<<DataTypeRef(start)>>)>>)>>)>>

\* one object with one parameter typed by the definition A of a table
ChainDocument(bases, prim_at) == Document(DefinitionTable(bases, prim_at), <<>>, TypedBy("A"))

\* one object with one parameter typed by a name that is not defined
UnknownTypeDocument == Document(<<DataType("A", "", <<StringPrimitive>>)>>, <<>>, TypedBy("U"))

KindChoices == {"string", "int", "unsignedInt", "long", "unsignedLong", "hexBinary", "boolean"}

\* the constraint children of a primitive
ConstraintChoices ==
    {<<>>,
     <<Size("", "64")>>,
     <<Size("4", "")>>,
     <<Size("4", "8"), Size("16", "32")>>,
     <<E("pattern", NoAttr, <<Size("4", "8")>>), Size("16", "32")>>,
     <<Range("0", "5")>>,
     <<Range("1", "")>>,
     <<Range("", "10")>>,
     <<Enumeration("a"), Enumeration("b")>>,
     <<Enumeration("b"), Enumeration("a"), Enumeration("b")>>,
     <<Size("", "64"), Enumeration("b"), Enumeration("a"), Enumeration("b")>>,
     <<Range("0", "5"), Enumeration("a")>>}

Placements == {"inline", "list_then", "list_holds", "list_item", "chain"}

\* a primitive of one kind with its constraints: inline, beside or inside a <list>,
\* or embedded in the data-type definition the parameter refers to
RenderDocument(kind, cons, place) ==
    LET prim == E(kind, NoAttr, cons)
        syntax == CASE place = "inline" -> <<prim>>
                    [] place = "list_then" -> <<E("list", NoAttr, <<>>), prim>>
                    [] place = "list_holds" -> <<E("list", NoAttr, cons), E(kind, NoAttr, <<>>)>>
                    [] place = "list_item" -> <<E("list", NoAttr, <<prim>>)>>
                    [] place = "chain" -> <<DataTypeRef("A")>>
    IN  Document(IF place = "chain"
                 THEN <<DataType("A", "", <<Description("a type"), prim>>)>> ELSE <<>>,
                 <<>>,
                 <<Object("Device.Test.", <<Parameter("Value", NoAttr, <<Syntax(syntax)>>)>>)>>)

Template(name, parent, kids) ==
    E("template", A1("name", name) @@ (IF parent = "" THEN NoAttr ELSE A1("template", parent)),
      kids)

TemplateSyntaxKids == <<Syntax(<<E("string", A1("value", "from template"), <<>>)>>)>>

\* the template attribute of the parameter, and the templates of the document
TemplateChoices ==
    {[attr |-> "", table |-> <<>>],
     [attr |-> "T1", table |-> <<Template("T1", "", <<Description("Template text")>>
                                                    \o TemplateSyntaxKids)>>],
     [attr |-> "T1", table |-> <<Template("T1", "T2", <<>>),
                                 Template("T2", "", <<Description("Parent text")>>
                                                    \o TemplateSyntaxKids)>>],
     [attr |-> "TX", table |-> <<Template("T1", "", <<Description("Template text")>>)>>]}

Reference(name, target) ==
    E("reference", A1("name", name) @@ A1("targetParamRef", target), <<>>)

\* the ref attribute of the parameter; the document defines the reference R1
RefChoices == {"", "R1", "RX"}

\* the description children of the parameter
EmbeddedChoices ==
    {<<>>,
     <<Description("Test value {{empty}}")>>,
     <<E("description", NoAttr, <<>>)>>}

IntRange == E("int", NoAttr, <<Range("1", "10")>>)

\* the syntax children of the parameter
SyntaxChoices ==
    {<<>>,
     <<Syntax(<<>>)>>,
     <<Syntax(<<IntRange>>)>>,
     <<Syntax(<<E("default", A1("value", "5"), <<>>), E("string", NoAttr, <<>>)>>)>>}

RadioPath == "Device.WiFi.Radio.{i}."

\* a parameter Device.WiFi.Radio.{i}.Channel with an embedded description, a syntax,
\* a template and a reference
OverlayDocument(tc, ref, emb, syn) ==
    Document(<<>>, tc.table,
             <<Object(RadioPath,
                      <<Reference("R1", "Device.WiFi.SSID.{i}.Name"),
                        Parameter("Channel",
                                  (IF tc.attr = "" THEN NoAttr ELSE A1("template", tc.attr))
                                  @@ (IF ref = "" THEN NoAttr ELSE A1("ref", ref)),
                                  emb \o syn)>>)>>)

KV(k, v) == [key |-> Str(k), val |-> Str(v)]

\* the documentation index: empty, keyed by the normalized path, keyed by the
\* instantiated path, or holding two keys whose {i}-stripped forms are those of the path
HtmlChoices ==
    {<<>>,
     <<KV("device.wifi.radio.{i}.channel", "Documented channel")>>,
     <<KV("device.wifi.radio.channel", "Documented channel")>>,
     <<KV("device.wifi.radio..channel", "First"), KV("device.wifi.radio.{i}{i}.channel", "Second")>>,
     <<KV("device.wifi.radio.{i}{i}.channel", "Second"), KV("device.wifi.radio..channel", "First")>>}

ObjectNameChoices == {"", ".", " . ", "..", "Device.Test.", "Device.A"}

ParameterNameChoices == {"", ".", " ", "Value", " . ", ".Value"}

\* two objects of any name, the second beside the first or nested in it; the first
\* holds a parameter of any name and the parameter Good, the second the parameter Fine
NodeDocument(o1, p1, o2, nested) ==
    LET second == Object(o2, <<Parameter("Fine", NoAttr, <<>>)>>)
        params == <<Parameter(p1, NoAttr, <<>>), Parameter("Good", NoAttr, <<>>)>>
    IN  Document(<<>>, <<>>,
                 IF nested
                 THEN <<Object(o1, params \o <<second>>)>>
                 ELSE <<Object(o1, params), second>>)

\* the object Device.Test. with the parameter Value: int, range 1-10, an embedded
\* description
EndToEndDocument ==
    Document(<<>>, <<>>,
             <<Object("Device.Test.",
                      <<Parameter("Value", NoAttr,
                                  <<Description("Test value {{empty}}"),
                                    Syntax(<<IntRange>>)>>)>>)>>)

\* a document without a model element
NoModelDocument ==
    E("{urn:broadband-forum-org:cwmp:datamodel-1-14}document", NoAttr,
      <<DataType("A", "", <<StringPrimitive>>)>>)

\* the definition tables of the twin documents: a cycle, a chain of three that ends
\* in a string primitive, and no definition at all
TwinTables ==
    {<<DataType("A", "B", <<Description("a type")>>),
       DataType("B", "A", <<Description("a type")>>)>>,
     <<DataType("A", "B", <<Description("a type")>>),
       DataType("B", "C", <<Description("a type")>>),
       DataType("C", "", <<Description("a type"), StringPrimitive>>)>>,
     <<>>}

\* the same parameter three times: twice in one object, once in another
TwinDocument(table, tc) ==
    LET twin == Parameter("Value", IF tc.attr = "" THEN NoAttr ELSE A1("template", tc.attr),
                          <<Syntax(<<DataTypeRef("A")>>)>>)
    IN  Document(table, tc.table,
                 <<Object("Device.Test.", <<twin, twin>>), Object("Device.Other.", <<twin>>)>>)

\* template tables: two templates that are each other's parent, a template that is
\* its own parent, and a template with a parent that has none
CycleTables ==
    {<<Template("T1", "T2", <<Description("one")>>), Template("T2", "T1", <<>>)>>,
     <<Template("T1", "T1", <<Description("one")>>)>>,
     <<Template("T1", "T2", <<>>), Template("T2", "", <<Description("two")>>)>>}

\* the parameter P1 uses the template T1; it has a sibling before it, a sibling after
\* it, and an object after its own
CycleDocument(table) ==
    Document(<<>>, table,
             <<Object("Device.A.", <<Parameter("P0", NoAttr, <<>>),
                                     Parameter("P1", A1("template", "T1"), <<>>),
                                     Parameter("P2", NoAttr, <<>>)>>),
               Object("Device.B.", <<Parameter("Q", NoAttr, <<>>)>>)>>)

\* the children a derived definition carries beside its description
RefinementChoices ==
    {<<>>,
     <<Size("", "15")>>,
     <<Range("0", "5")>>,
     <<Enumeration("a"), Enumeration("b")>>,
     <<Enumeration("b"), Enumeration("a"), Enumeration("b")>>}

\* the parameter is typed by A, which carries the refinement and may have the base B;
\* B has the base C; C embeds a string primitive
RefineDocument(own, has_base) ==
    Document(<<DataType("A", IF has_base THEN "B" ELSE "", <<Description("a type")>> \o own),
               DataType("B", "C", <<Description("a type")>>),
               DataType("C", "", <<Description("a type"), StringPrimitive>>)>>,
             <<>>, TypedBy("A"))

\* what a template of a chain holds: a description or none, and no syntax, a type,
\* or a type with a default value
TemplateBodies(text, kind, value) ==
    {desc \o syn : desc \in {<<>>, <<Description(text)>>},
                   syn \in {<<>>,
                            <<Syntax(<<E(kind, NoAttr, <<>>)>>)>>,
                            <<Syntax(<<E(kind, A1("value", value), <<>>)>>)>>}}

\* the orders in which the three templates of a chain are declared
DeclarationOrders == {<<1, 2, 3>>, <<3, 2, 1>>, <<2, 1, 3>>}

\* the templates T1 (parent T2), T2 (parent T3) and T3, declared in the order given;
\* the parameter uses T1 and holds an empty description and no syntax
TemplateChainDocument(b1, b2, b3, order) ==
    LET chain == <<Template("T1", "T2", b1), Template("T2", "T3", b2), Template("T3", "", b3)>>
    IN  Document(<<>>, [k \in 1..3 |-> chain[order[k]]],
                 <<Object("Device.Test.",
                          <<Parameter("Value", A1("template", "T1"),
                                      <<E("description", NoAttr, <<>>)>>)>>)>>)

\* the text of the embedded description of the parameter
MacroTexts ==
    {"See {{reference|the {{object}} table}} now",
     "{{reference|{{object}}}}",
     "A {{reference|plain}} b",
     "A {{param|Enable}} b",
     "A {{object|Device.X.}} b",
     "A {{bibref|RFC1}} b",
     "A {{empty}} b",
     "A {{unknown}} b",
     "A {{unknown|X}} b"}

\* the parameter Value with an embedded description, in an object of the name given
MacroDocument(text, object_name) ==
    Document(<<>>, <<>>,
             <<Object(object_name, <<Parameter("Value", NoAttr, <<Description(text)>>)>>)>>)

\* the description children of the object: none, one of the plain tag, one of the
\* namespaced tag
ObjectDescriptionChoices ==
    {<<>>,
     <<Description("Radio {{empty}}  table")>>,
     <<T(DmDescription, NoAttr, "Radio {{empty}}  table")>>}

\* the documentation index for the object: empty, keyed by the normalized path, keyed
\* by the path without its {i}
ObjectHtmlChoices ==
    {<<>>,
     <<KV("device.wifi.radio.{i}", "Documented radio")>>,
     <<KV("device.wifi.radio.", "Documented radio")>>}

\* the object Device.WiFi.Radio.{i}. with description children and the parameter Channel
ObjectDescriptionDocument(descs) ==
    Document(<<>>, <<>>, <<Object(RadioPath, descs \o <<Parameter("Channel", NoAttr, <<>>)>>)>>)

\* the default child of the syntax block: its value as an attribute, as text, as both
DefaultNodeChoices ==
    {E("default", A1("value", "5"), <<>>),
     T("default", NoAttr, "txt"),
     T("default", A1("value", "5"), "txt")}

\* how the syntax block gives the type: a dataType reference, an inline primitive, a
\* list of a primitive
TypeNodeChoices ==
    {<<DataTypeRef("A")>>,
     <<E("string", NoAttr, <<>>)>>,
     <<E("list", NoAttr, <<>>), E("string", NoAttr, <<>>)>>,
     <<E("hexBinary", NoAttr, <<>>)>>,
     <<E("boolean", NoAttr, <<>>)>>}

\* the parameter Value whose syntax block holds a default child before or after the
\* children that give the type
DefaultDocument(default_node, type_nodes, default_first) ==
    Document(<<DataType("A", "", <<StringPrimitive>>)>>, <<>>,
             <<Object("Device.Test.",
                      <<Parameter("Value", NoAttr,
                                  <<Syntax(IF default_first THEN <<default_node>> \o type_nodes
                                           ELSE type_nodes \o <<default_node>>)>>)>>)>>)

\* The inputs of process_xml_file: the schema source (<<>> when it does not parse)
\* and the documentation index.
InitChain ==
    /\ \E bases \in BaseAssignments, prim_at \in 0..MaxDefs :
          root = <<ChainDocument(bases, prim_at)>>
    /\ html = <<>>

InitRender ==
    /\ \E kind \in KindChoices, cons \in ConstraintChoices, place \in Placements :
          root = <<RenderDocument(kind, cons, place)>>
    /\ html = <<>>

InitOverlay ==
    /\ \E tc \in TemplateChoices, ref \in RefChoices, emb \in EmbeddedChoices,
          syn \in SyntaxChoices :
          root = <<OverlayDocument(tc, ref, emb, syn)>>
    /\ html \in HtmlChoices

InitNodes ==
    /\ \E o1 \in ObjectNameChoices, o2 \in ObjectNameChoices,
          p1 \in ParameterNameChoices, nested \in BOOLEAN :
          root = <<NodeDocument(o1, p1, o2, nested)>>
    /\ html = <<>>

InitEndToEnd ==
    /\ root = <<EndToEndDocument>>
    /\ html \in {<<>>, <<KV("device.test.other", "Other")>>}

InitTwins ==
    /\ \E table \in TwinTables, tc \in TemplateChoices : root = <<TwinDocument(table, tc)>>
    /\ html = <<>>

InitCycles ==
    /\ \E table \in CycleTables : root = <<CycleDocument(table)>>
    /\ html = <<>>

InitRefine ==
    /\ \E own \in RefinementChoices, has_base \in BOOLEAN : root = <<RefineDocument(own, has_base)>>
    /\ html = <<>>

InitTemplateChain ==
    /\ \E b1 \in TemplateBodies("one", "string", "1"), b2 \in TemplateBodies("two", "int", "2"),
          b3 \in TemplateBodies("three", "boolean", "3"), order \in DeclarationOrders :
          root = <<TemplateChainDocument(b1, b2, b3, order)>>
    /\ html = <<>>

InitMacros ==
    /\ \E text \in MacroTexts, object_name \in {"Device.Test.", "Device.Test"} :
          root = <<MacroDocument(text, object_name)>>
    /\ html = <<>>

InitObjectDescription ==
    /\ \E descs \in ObjectDescriptionChoices : root = <<ObjectDescriptionDocument(descs)>>
    /\ html \in ObjectHtmlChoices

InitDefaults ==
    /\ \E default_node \in DefaultNodeChoices, type_nodes \in TypeNodeChoices,
          default_first \in BOOLEAN :
          root = <<DefaultDocument(default_node, type_nodes, default_first)>>
    /\ html = <<>>

InitOther ==
    /\ root \in {<<UnknownTypeDocument>>, <<NoModelDocument>>, <<>>}
    /\ html = <<>>

Init ==
    /\ InitChain \/ InitRender \/ InitOverlay \/ InitNodes \/ InitEndToEnd \/ InitTwins
       \/ InitCycles \/ InitRefine \/ InitTemplateChain \/ InitMacros \/ InitObjectDescription
       \/ InitDefaults \/ InitOther
    /\ pc = "parse"
    /\ Idle
    /\ run = 1
    /\ first_data = <<>>

Spec == Init /\ [][Next]_vars

(***************************************************************************)
(* Properties                                                              *)
(***************************************************************************)
\* the records of all_data that are parameter records
ParamRecords == {i \in 1..Len(all_data) : emitted[i][2] > 0}

\* the parameter element a parameter record was made from
ParamOfRecord(i) == ParametersFound(objects_found[emitted[i][1]])[emitted[i][2]]

\* the dataType reference the syntax block of a parameter names, None when it names none
NamedReference(param_elem) ==
    LET syn == SyntaxChildren(param_elem)
        dts == IF syn = <<>> THEN <<>>
               ELSE SelectSeq(syn[1].kids, LAMBDA c : LowerLocalTag(c) = Str("datatype"))
    IN  IF dts = <<>> \/ ~Truthy(Get(dts[1], "ref")) THEN None ELSE Get(dts[1], "ref")

\* the names under which the document defines a data type
DefinedNames ==
    IF root = <<>> THEN {}
    ELSE LET dts == findallDeep(root[1], "dataType")
         IN  {Get(dts[i], "name") : i \in 1..Len(dts)} \ {None}

\* a definition that holds nothing but descriptions
BareDefinition(dt) == \A i \in 1..Len(dt.kids) : LocalTagLower(dt.kids[i]) = Str("description")

RECURSIVE BaseChain(_, _)
\* the defined names the base links lead through from name, cut after n names
BaseChain(name, n) ==
    IF n = 0 \/ FindDataType(root[1], name) = <<>> THEN <<>>
    ELSE LET base == Get(FindDataType(root[1], name)[1], "base")
         IN  <<name>> \o (IF Truthy(base) THEN BaseChain(base, n - 1) ELSE <<>>)

\* more names than there are definitions: the chain meets a name again
CyclicChain(name) ==
    Len(BaseChain(name, Cardinality(DefinedNames) + 1)) = Cardinality(DefinedNames) + 1

\* the number of base links of an acyclic chain, a link to an undefined name included
ChainLinks(name) ==
    LET chain == BaseChain(name, Cardinality(DefinedNames) + 1)
    IN  Cardinality({i \in 1..Len(chain) :
                        Truthy(Get(FindDataType(root[1], chain[i])[1], "base"))})

\* C1: resolve_datatype_reference terminates: no definition name is visited twice in
\* one resolution, the walk never holds more names than there are definitions, an
\* acyclic chain of N base links has at most N links followed, and a cyclic chain of
\* definitions that embed no primitive returns None.
ResolverTerminates ==
    pc \in {"walk", "return"} =>
        /\ \A i, j \in 1..Len(trail) : i # j => trail[i] # trail[j]
        /\ {trail[i] : i \in 1..Len(trail)} \subseteq visited
        /\ Len(trail) <= Cardinality(DefinedNames)
        /\ ~CyclicChain(datatype_name) =>
               Cardinality(visited) - 1 <= ChainLinks(datatype_name)
        /\ ( /\ pc = "return"
             /\ CyclicChain(datatype_name)
             /\ \A i \in 1..Len(trail) : BareDefinition(FindDataType(root[1], trail[i])[1]) )
           => ResolveResult(dt_elem, resolved_type) = None

\* a resolution that walked a cycle of two or more definitions and returned None
CycleWalked ==
    /\ pc = "return"
    /\ CyclicChain(datatype_name)
    /\ Len(trail) >= 2
    /\ Get(FindDataType(root[1], trail[Len(trail)])[1], "base") \in visited
    /\ ResolveResult(dt_elem, resolved_type) = None

RECURSIVE EndsBare(_, _)
\* the chain from name ends (undefined name, no base, unknown base or a base met
\* before) before it meets a definition that holds more than descriptions
EndsBare(name, seen) ==
    LET dt == FindDataType(root[1], name)
    IN  IF dt = <<>> THEN TRUE
        ELSE IF ~BareDefinition(dt[1]) THEN FALSE
        ELSE IF ~Truthy(Get(dt[1], "base")) \/ Get(dt[1], "base") \in seen THEN TRUE
        ELSE EndsBare(Get(dt[1], "base"), seen \cup {Get(dt[1], "base")})

\* C2: the record of a parameter whose syntax block names a dataType reference X has
\* a Data Type that is never empty, and that is ref(X) exactly when X is not defined
\* or its base chain ends without a definition that embeds a type.
ReferencedTypeNeverEmpty ==
    \A i \in ParamRecords :
        LET X == NamedReference(ParamOfRecord(i))
        IN  Truthy(X) =>
                /\ all_data[i].Data_Type # <<>>
                /\ all_data[i].Data_Type # None
                /\ EndsBare(X, {X}) <=> all_data[i].Data_Type = Str("ref(") \o X \o Str(")")

\* a record whose Data Type is ref(X) for a defined X whose chain ends bare
PlaceholderEmitted ==
    \E i \in ParamRecords :
        LET X == NamedReference(ParamOfRecord(i))
        IN  /\ Truthy(X)
            /\ FindDataType(root[1], X) # <<>>
            /\ all_data[i].Data_Type = Str("ref(") \o X \o Str(")")

PrimitiveKinds ==
    {Str("string"), Str("int"), Str("unsignedint"), Str("long"), Str("unsignedlong"),
     Str("hexbinary"), Str("boolean"), Str("datetime"), Str("base64")}

\* the parameter extract_parameter_data has rendered the type of
RenderedParameter == parameters_found[pi]

\* the element the type of the rendered parameter is read from: the definition its
\* syntax block names, or the syntax block itself (a sequence of length 0 or 1)
TypeHolder ==
    LET syn == SyntaxChildren(RenderedParameter)
    IN  IF Len(syn) # 1 THEN <<>>
        ELSE IF Truthy(NamedReference(RenderedParameter))
             THEN FindDataType(root[1], NamedReference(RenderedParameter))
             ELSE syn

\* the primitives below the type holder, in document order
HeldPrimitives ==
    IF TypeHolder = <<>> THEN <<>>
    ELSE SelectSeq(Descendants(TypeHolder[1]), LAMBDA c : LowerLocalTag(c) \in PrimitiveKinds)

\* the <list> children of the syntax block
HeldLists ==
    IF TypeHolder = <<>> THEN <<>>
    ELSE SelectSeq(TypeHolder[1].kids, LAMBDA c : LowerLocalTag(c) = Str("list"))

\* a <size> or <range> that gives a bound
GivesBound(c) ==
    \/ LowerLocalTag(c) = Str("size")
       /\ (Truthy(Get(c, "minLength")) \/ Truthy(Get(c, "maxLength")))
    \/ LowerLocalTag(c) = Str("range")
       /\ (Truthy(Get(c, "minInclusive")) \/ Truthy(Get(c, "maxInclusive")))

\* the first primitive, or a list beside it, has a constraint child that gives a bound
HasConstraintGroup ==
    /\ HeldPrimitives # <<>>
    /\ \E e \in {HeldPrimitives[1]} \cup {HeldLists[i] : i \in 1..Len(HeldLists)} :
          \E k \in 1..Len(e.kids) : GivesBound(e.kids[k])

\* what follows the kind name (or "enum") in a rendered type signature
AfterKind(dt, kind) ==
    IF startswith(dt, kind) THEN SubSeq(dt, Len(kind) + 1, Len(dt))
    ELSE IF startswith(dt, Str("enum")) THEN SubSeq(dt, 5, Len(dt))
    ELSE <<>>

\* the bracket law on the type signature extract_parameter_data has rendered, for the
\* placements given: a constraint group opens with "[" for int, long and unsignedInt
\* and with "(" for every other kind
BracketLawWhere(lists) ==
    (pc = "template" /\ HasConstraintGroup /\ (HeldLists # <<>>) \in lists) =>
        LET kind == LowerLocalTag(HeldPrimitives[1])
            group == AfterKind(param_data.Data_Type, kind)
        IN  group # <<>> =>
                group[1] = (IF kind \in {Str("int"), Str("long"), Str("unsignedint")}
                            THEN "[" ELSE "(")

\* C3: bracket law: in every rendered type signature (resolver and inline extractor,
\* list and non-list case alike) a non-empty constraint group is enclosed in [ ] for
\* the kinds int, long and unsignedInt and in ( ) for every other kind.
BracketLaw == BracketLawWhere({TRUE, FALSE})

\* the values of the enumeration children of a primitive, in declaration order
DeclaredValues(e) ==
    LET enums == SelectSeq(e.kids, LAMBDA c : LowerLocalTag(c) = Str("enumeration")
                                             /\ Get(c, "value") # None)
    IN  [i \in 1..Len(enums) |-> Get(enums[i], "value")]

\* the enum collapse law on the string primitive the rendered parameter holds, when
\* that primitive is embedded in a definition (chain) or sits inline in the syntax
EnumCollapseWhere(chain) ==
    ( /\ pc = "template"
      /\ HeldPrimitives # <<>>
      /\ HeldLists = <<>>
      /\ Truthy(NamedReference(RenderedParameter)) \in chain
      /\ LowerLocalTag(HeldPrimitives[1]) = Str("string")
      /\ DeclaredValues(HeldPrimitives[1]) # <<>> ) =>
        LET prim == HeldPrimitives[1]
            dt == param_data.Data_Type
            listed == Str("[") \o Join(DeclaredValues(prim), Str(",")) \o Str("]")
            group == SubSeq(dt, 5, Len(dt) - Len(listed))
        IN  IF \A k \in 1..Len(prim.kids) : LowerLocalTag(prim.kids[k]) = Str("enumeration")
            THEN dt = Str("string")
            ELSE (\E k \in 1..Len(prim.kids) : GivesBound(prim.kids[k])) =>
                     /\ startswith(dt, Str("enum"))
                     /\ endswith(dt, listed)
                     /\ Len(group) >= 3
                     /\ group[1] = "(" /\ group[Len(group)] = ")"

\* C4: enum collapse law: a string primitive whose children are all enumerations
\* renders as plain "string"; one that has enumerations and another constraint
\* renders as "enum", the bracketed constraints, then [v1,v2,...] in declaration
\* order with duplicates kept.
EnumCollapseLaw == EnumCollapseWhere({TRUE, FALSE})

\* the item of a list of hexBinary: the hexBinary child of the <list>, or the
\* hexBinary that follows the <list> (a sequence of length 0 or 1)
HexItem ==
    IF HeldLists = <<>> \/ Truthy(NamedReference(RenderedParameter)) THEN <<>>
    ELSE LET inside == SelectSeq(HeldLists[1].kids,
                                 LAMBDA c : LowerLocalTag(c) = Str("hexbinary"))
             beside == SelectSeq(TypeHolder[1].kids,
                                 LAMBDA c : LowerLocalTag(c) = Str("hexbinary"))
         IN  IF inside # <<>> THEN <<inside[1]>> ELSE First(beside)

\* the size entries anywhere beneath an element, in document order
SizesBeneath(e) == SelectSeq(Descendants(e), LAMBDA c : LowerLocalTag(c) = Str("size"))

\* C5: list aggregation law: for a list whose item kind is hexBinary every size entry
\* anywhere beneath the item is rendered, in document order, in one group; sizes
\* (4,8) and (16,32) give hexbinary(4:8, 16:32), no size entry gives hexbinary.
ListAggregationLaw ==
    (pc = "template" /\ HexItem # <<>>) =>
        LET sizes == SizesBeneath(HexItem[1])
            bounds == [i \in 1..Len(sizes) |->
                          <<Get(sizes[i], "minLength"), Get(sizes[i], "maxLength")>>]
            dt == param_data.Data_Type
        IN  /\ dt = (IF SizeParts(sizes) = <<>> THEN Str("hexbinary")
                     ELSE Str("hexbinary(") \o Join(SizeParts(sizes), Str(", ")) \o Str(")"))
            /\ sizes = <<>> => dt = Str("hexbinary")
            /\ bounds = << <<Str("4"), Str("8")>>, <<Str("16"), Str("32")>> >>
                   => dt = Str("hexbinary(4:8, 16:32)")

\* a list of hexBinary with a size entry that is no direct child of the item
NestedSizesRendered ==
    /\ pc = "template"
    /\ HexItem # <<>>
    /\ Len(SizesBeneath(HexItem[1])) = 2
    /\ Len(findall(HexItem[1], "size")) = 1
    /\ param_data.Data_Type = Str("hexbinary(4:8, 16:32)")

OverlaidFields == {"Description", "Data_Type", "Object_Default"}

\* a template or reference overlay step leaves every field that is set as it is
OverlayKeepsSetFields ==
    pc \in {"template", "reference"} =>
        \A f \in OverlaidFields : Truthy(param_data[f]) => param_data'[f] = param_data[f]

\* the documentation index holds no key that matches the parameter
NoDocumentationMatch(param_elem, parent_object_name) ==
    LET normalized == normalize_path(FullPath(parent_object_name, GetOr(param_elem, "name")))
    IN  ~DictHas(html, normalized) /\ RelaxedMatches(html, normalized) = <<>>

\* the embedded description of a parameter, macro-substituted and cleaned
EmbeddedText(param_elem, parent_object_name) ==
    LET descs == DescriptionChildren(param_elem)
    IN  IF descs = <<>> THEN <<>>
        ELSE clean_text(substitute_macros(itertext(descs[Len(descs)]),
                                          GetOr(param_elem, "name"), parent_object_name))

\* the description of the template the parameter names, as the document gives it
OwnTemplateDescription(param_elem) ==
    LET named == SelectSeq(TemplatesFound(root[1]),
                           LAMBDA t : GetOr(t, "name") = GetOr(param_elem, "template"))
    IN  IF named = <<>> \/ DescriptionTemplateChildren(named[1]) = <<>> THEN <<>>
        ELSE clean_text(DescriptionTemplateChildren(named[1])[1].text)

\* in the records: an embedded description is kept against the description of the
\* template, and a documentation match wins over the embedded description
HigherSourceKept ==
    \A i \in ParamRecords :
        LET p == ParamOfRecord(i)
            parent == all_data[i].Object_Name
            normalized == normalize_path(FullPath(parent, GetOr(p, "name")))
        IN  /\ ( /\ NoDocumentationMatch(p, parent)
                 /\ Truthy(EmbeddedText(p, parent))
                 /\ Truthy(OwnTemplateDescription(p)) )
               => all_data[i].Description = EmbeddedText(p, parent)
            /\ DictHas(html, normalized)
               => all_data[i].Description = DictGet(html, normalized)
            /\ (~DictHas(html, normalized) /\ RelaxedMatches(html, normalized) # <<>>)
               => all_data[i].Description = RelaxedMatches(html, normalized)[1].val

\* C6: priority law: a Description, Data Type or Object Default that is set is never
\* changed by the template overlay nor by the reference overlay; a parameter with an
\* embedded description and a template that has its own description keeps the
\* embedded one, and a documentation match wins over the embedded description.
PriorityLaw == [][OverlayKeepsSetFields]_vars /\ []HigherSourceKept

\* the template overlay has passed over a parameter whose embedded description is
\* set and whose template has another description, and has filled its default
EmbeddedKeptOverTemplate ==
    /\ pc = "reference"
    /\ Truthy(OwnTemplateDescription(RenderedParameter))
    /\ NoDocumentationMatch(RenderedParameter, param_data.Object_Name)
    /\ Truthy(EmbeddedText(RenderedParameter, param_data.Object_Name))
    /\ param_data.Description = EmbeddedText(RenderedParameter, param_data.Object_Name)
    /\ param_data.Description # OwnTemplateDescription(RenderedParameter)
    /\ param_data.Object_Default = Str("from template")

\* the description the template chain of a parameter resolves to
TemplateDescription(param_elem) ==
    LET data == extract_template_data(GetOr(param_elem, "template"), templates)
    IN  IF data = <<>> \/ data[1] = RecursionError THEN <<>> ELSE data[1].description

\* C7: first non-empty wins: for a parameter with no documentation match and no
\* embedded description the Description is the description its template resolves
\* to when there is one, otherwise the reference description that names the target
\* when its ref is a known reference; the sentinel stands only when every source
\* is empty.
FirstNonEmptyWins ==
    \A i \in ParamRecords :
        LET p == ParamOfRecord(i)
            ref == GetOr(p, "ref")
        IN  ( /\ NoDocumentationMatch(p, all_data[i].Object_Name)
              /\ DescriptionChildren(p) = <<>> ) =>
                IF Truthy(TemplateDescription(p))
                THEN all_data[i].Description = TemplateDescription(p)
                ELSE IF ref \in DOMAIN references
                     THEN all_data[i].Description = Str("Reference to: ") \o references[ref]
                     ELSE all_data[i].Description = Sentinel

\* C8: path reconciliation: documentation keyed under the normalized form of
\* Device.WiFi.Radio.{i}.Channel is found by exact match; documentation keyed
\* device.wifi.radio.channel is found by the relaxed match that strips {i} from both
\* sides; of several keys the relaxed match accepts the first in the index wins.
PathReconciliation ==
    \A i \in ParamRecords :
        all_data[i].Full_Path = Str("Device.WiFi.Radio.{i}.Channel") =>
            LET exact == Str("device.wifi.radio.{i}.channel")
                relaxed == RelaxedMatches(html, exact)
            IN  IF DictHas(html, exact)
                THEN all_data[i].Description = DictGet(html, exact)
                ELSE /\ DictHas(html, Str("device.wifi.radio.channel"))
                        => all_data[i].Description =
                               DictGet(html, Str("device.wifi.radio.channel"))
                     /\ relaxed # <<>> => all_data[i].Description = relaxed[1].val

\* a name that is empty or, its whitespace set aside, the bare separator
Malformed(x) == x = <<>> \/ strip(x, Whitespace) = Str(".")

\* a name made of separators and spaces only
OnlySeparators(x) == \A k \in 1..Len(x) : x[k] \in {".", " "}

\* the nodes of the document that are well formed, in document order: <<o, 0>> for
\* the object o, <<o, p>> for its parameter p
WellFormedNodes ==
    Flatten([o \in 1..Len(objects_found) |->
        LET object_name == GetOr(objects_found[o], "name")
            params == ParametersFound(objects_found[o])
            kept == SelectSeq([p \in 1..Len(params) |-> p],
                              LAMBDA p : /\ ~Malformed(GetOr(params[p], "name"))
                                         /\ ~( /\ OnlySeparators(object_name)
                                               /\ OnlySeparators(GetOr(params[p], "name")) ))
        IN  IF Malformed(object_name) THEN <<>>
            ELSE << <<o, 0>> >> \o [k \in 1..Len(kept) |-> <<o, kept[k]>>]])

\* C9: degenerate nodes are dropped: no record has an empty or bare "." Object Name,
\* Parameter Name or Full Path; an object of such a name gives no record, neither its
\* own nor one of its parameters; and the records of a finished run are those of
\* all the well-formed nodes, in document order.
DegenerateNodesDropped ==
    /\ \A i \in 1..Len(all_data) :
          /\ all_data[i].Object_Name \notin {<<>>, Str(".")}
          /\ ~Malformed(GetOr(objects_found[emitted[i][1]], "name"))
          /\ i \in ParamRecords =>
                /\ all_data[i].Parameter_Name \notin {<<>>, Str(".")}
                /\ all_data[i].Full_Path \notin {<<>>, Str(".")}
    /\ Len(emitted) = Len(all_data)
    /\ (pc = "done" /\ ~failed /\ objects_found # <<>>) => emitted = WellFormedNodes

\* a finished run over a document with an object of a degenerate name that holds
\* parameters, and with a degenerate parameter in a well-formed object
NodesWereDropped ==
    /\ pc = "done" /\ ~failed
    /\ \E o \in 1..Len(objects_found) :
          /\ Malformed(GetOr(objects_found[o], "name"))
          /\ ParametersFound(objects_found[o]) # <<>>
    /\ \E o \in 1..Len(objects_found) :
          /\ ~Malformed(GetOr(objects_found[o], "name"))
          /\ \E p \in 1..Len(ParametersFound(objects_found[o])) :
                /\ Malformed(GetOr(ParametersFound(objects_found[o])[p], "name"))
                /\ \E q \in (p + 1)..Len(ParametersFound(objects_found[o])) :
                      \E i \in 1..Len(emitted) : emitted[i] = <<o, q>>

\* the run over the document of the object Device.Test. with the parameter Value
EndToEndRun ==
    /\ pc = "done"
    /\ root = <<EndToEndDocument>>
    /\ ~DictHas(html, Str("device.test.value"))

\* C10: end to end: the object Device.Test. with the parameter Value, inline int with
\* range 1-10, no documentation match, embedded description "Test value {{empty}}",
\* gives an object record and then a parameter record with Full Path
\* Device.Test.Value, Data Type int[1:10] and Description "Test value an empty string".
EndToEnd ==
    EndToEndRun =>
        /\ Len(all_data) = 2
        /\ all_data[1].Is_Object
        /\ all_data[1].Object_Name = Str("Device.Test.")
        /\ ~all_data[2].Is_Object
        /\ all_data[2].Parameter_Name = Str("Value")
        /\ all_data[2].Full_Path = Str("Device.Test.Value")
        /\ all_data[2].Data_Type = Str("int[1:10]")
        /\ all_data[2].Description = Str("Test value an empty string")

\* the run over that document has ended with its two records
EndToEndDone == EndToEndRun /\ ~failed /\ Len(all_data) = 2

\* C11: determinism: a second run of process_xml_file over the same schema tree and
\* the same documentation index returns the records of the first, in the same
\* order; and within a run the records made from one parameter element agree: no
\* resolution leaves state that changes a later resolution of the same name.
Determinism ==
    /\ (run = 2 /\ pc = "done") => all_data = first_data
    /\ \A i, j \in ParamRecords :
          ParamOfRecord(i) = ParamOfRecord(j) =>
              /\ all_data[i].Data_Type = all_data[j].Data_Type
              /\ all_data[i].Object_Default = all_data[j].Object_Default
              /\ all_data[i].Object_Name = all_data[j].Object_Name
                    => all_data[i] = all_data[j]

\* the second run has ended with the records of the first, three of them made from
\* one parameter that names a defined data type
SecondRunAgrees ==
    /\ run = 2 /\ pc = "done" /\ ~failed
    /\ all_data = first_data
    /\ \E i, j, k \in ParamRecords :
          /\ i < j /\ j < k
          /\ ParamOfRecord(i) = ParamOfRecord(j) /\ ParamOfRecord(j) = ParamOfRecord(k)
          /\ Truthy(NamedReference(ParamOfRecord(i)))
          /\ FindDataType(root[1], NamedReference(ParamOfRecord(i))) # <<>>

\* the run has ended in a failure: the source did not parse, it holds no model, or an
\* exception handler of process_xml_file was reached
EndedInFailure ==
    /\ pc = "done"
    /\ root = <<>> \/ ModelOf(root[1]) = <<>> \/ failed

\* C12: structural failure is all-or-nothing: when the schema source does not parse
\* or holds no model, process_xml_file returns no record, and a run that ended in a
\* failure never returns a partly filled record list.
FailureReturnsNothing == EndedInFailure => all_data = <<>>

RECURSIVE TemplateParents(_, _)
\* the names the parent links of the template table lead through from name, cut
\* after n names
TemplateParents(name, n) ==
    IF n = 0 \/ ~TemplateHas(templates, name) THEN <<>>
    ELSE <<name>> \o (IF Truthy(TemplateGet(templates, name).template)
                      THEN TemplateParents(TemplateGet(templates, name).template, n - 1)
                      ELSE <<>>)

\* more names than there are templates: the parent links meet a name again
TemplateCycle(name) == Len(TemplateParents(name, Len(templates) + 1)) = Len(templates) + 1

\* a parameter of the document uses a template whose parent links form a cycle
UsesTemplateCycle ==
    \E o \in 1..Len(objects_found) :
        \E p \in 1..Len(ParametersFound(objects_found[o])) :
            TemplateCycle(GetOr(ParametersFound(objects_found[o])[p], "template"))

\* C13: template cycles are a local failure: a run over a document in which a
\* parameter uses a template on a cycle ends without an exception, the parameter
\* keeps the fields it had before the overlay, and every well-formed object and
\* parameter, the siblings and the later ones included, has its record.
TemplateCycleIsLocal ==
    (pc = "done" /\ UsesTemplateCycle) =>
        /\ ~failed
        /\ emitted = WellFormedNodes
        /\ \A i \in ParamRecords :
              TemplateCycle(GetOr(ParamOfRecord(i), "template")) =>
                  /\ all_data[i].Data_Type = <<>>
                  /\ all_data[i].Object_Default = <<>>

\* the primitives a definition embeds, as children or below them
EmbeddedPrimitives(dt) ==
    SelectSeq(Descendants(dt), LAMBDA c : LowerLocalTag(c) \in PrimitiveKinds)

RECURSIVE ChainSignature(_, _)
\* the signature of the first primitive the base chain from name embeds, None when
\* the chain ends (undefined name, no base, a base met before) before it embeds one
ChainSignature(name, seen) ==
    LET dt == FindDataType(root[1], name)
    IN  IF dt = <<>> THEN None
        ELSE IF EmbeddedPrimitives(dt[1]) # <<>>
             THEN extract_type_info(EmbeddedPrimitives(dt[1])[1])
        ELSE IF ~Truthy(Get(dt[1], "base")) \/ Get(dt[1], "base") \in seen THEN None
        ELSE ChainSignature(Get(dt[1], "base"), seen \cup {Get(dt[1], "base")})

\* the kind of a type signature: what stands before its first bracket
SignatureKind(dt) ==
    LET opens == {k \in 1..Len(dt) : dt[k] \in {"(", "["}}
    IN  IF opens = {} THEN dt
        ELSE SubSeq(dt, 1, (CHOOSE k \in opens : \A j \in opens : k <= j) - 1)

\* the multi-level base walk on the records of the parameters typed by a definition
\* that embeds no primitive and declares a base; refined tells whether the
\* definitions that carry children of their own are looked at
BaseWalkWhere(refined) ==
    \A i \in ParamRecords :
        LET X == NamedReference(ParamOfRecord(i))
            dt == FindDataType(root[1], X)
            base == Get(dt[1], "base")
            below == ChainSignature(base, {X, base})
        IN  ( /\ Truthy(X) /\ dt # <<>>
              /\ EmbeddedPrimitives(dt[1]) = <<>>
              /\ Truthy(base)
              /\ (~BareDefinition(dt[1])) \in refined ) =>
                IF BareDefinition(dt[1])
                THEN all_data[i].Data_Type =
                         (IF below = None THEN Str("ref(") \o X \o Str(")") ELSE below)
                ELSE SignatureKind(all_data[i].Data_Type)
                         \in PrimitiveKinds \cup {Str("enum"), Str("ref")}

\* C14: multi-level base walk: a definition that embeds no primitive and declares a
\* base resolves to what the chain of its base resolves to (A base B, B base C, C a
\* string of maxLength 64: string(64)); when the definition carries size, range or
\* enumeration children of its own, the kind of the result is still a primitive kind
\* or enum, never the tag name of a constraint node.
MultiLevelBaseWalk == BaseWalkWhere({TRUE, FALSE})

\* C15: resolver step 3: a definition whose only children beside descriptions are
\* enumerations, with no primitive child or descendant, resolves to
\* enum[v1,v2,...], the values in declaration order.
EnumerationOnlyDefinition ==
    \A i \in ParamRecords :
        LET X == NamedReference(ParamOfRecord(i))
            dt == FindDataType(root[1], X)
            others == SelectSeq(dt[1].kids, LAMBDA c : LocalTagLower(c) # Str("description"))
        IN  ( /\ Truthy(X) /\ dt # <<>>
              /\ others # <<>>
              /\ \A k \in 1..Len(others) : LocalTagLower(others[k]) = Str("enumeration") ) =>
                all_data[i].Data_Type =
                    Str("enum[") \o Join(DeclaredValues(dt[1]), Str(",")) \o Str("]")

\* the template element the document declares under a name (a sequence of length 0
\* or 1), whatever the place of its declaration
DeclaredTemplate(name) ==
    First(SelectSeq(TemplatesFound(root[1]), LAMBDA t : GetOr(t, "name") = name))

RECURSIVE FirstAlongChain(_, _, _)
\* the first non-empty value of a field along name, parent(name), ..., cut after n
\* templates; the values are those the template elements themselves hold
FirstAlongChain(name, field, n) ==
    IF n = 0 \/ DeclaredTemplate(name) = <<>> THEN <<>>
    ELSE LET own == extract_template_data_from_xml(DeclaredTemplate(name)[1])
         IN  IF Truthy(own[field]) THEN own[field]
             ELSE IF Truthy(own.template) THEN FirstAlongChain(own.template, field, n - 1)
             ELSE <<>>

\* the template extract_parameter_data resolves for the parameter it is at
TemplateRef == GetOr(parameters_found[pi], "template")

\* C16: template chain merge: extract_template_data(T) returns, for description,
\* data type and default each on its own, the first non-empty value along T,
\* parent(T), parent(parent(T)), ...: the value of a child is never replaced by that
\* of an ancestor, the order of declaration has no part in it, and a name that is
\* not declared gives None.
TemplateChainMerge ==
    (pc = "template" /\ ~TemplateCycle(TemplateRef)) =>
        LET data == extract_template_data(TemplateRef, templates)
            n == Len(templates)
        IN  IF DeclaredTemplate(TemplateRef) = <<>> THEN data = <<>>
            ELSE data = <<[description |-> FirstAlongChain(TemplateRef, "description", n),
                           data_type |-> FirstAlongChain(TemplateRef, "data_type", n),
                           default_value |-> FirstAlongChain(TemplateRef, "default_value", n)]>>

\* a description that comes from the parent of the parent, beside a data type of the
\* template itself whose parent has another, in a table declared parent first
ChainMerged ==
    /\ pc = "template"
    /\ Len(templates) = 3 /\ templates[1].name = Str("T3")
    /\ LET data == extract_template_data(TemplateRef, templates)
       IN  /\ data # <<>>
           /\ data[1].description = Str("three")
           /\ data[1].data_type = Str("string")
           /\ data[1].default_value = Str("2")
           /\ FirstAlongChain(Str("T2"), "data_type", 3) = Str("int")

\* the one primitive the syntax block of the rendered parameter holds inline, when no
\* enumeration and no constraint of a list stands beside it (length 0 or 1)
InlinePrimitive ==
    IF /\ ~Truthy(NamedReference(RenderedParameter))
       /\ Len(HeldPrimitives) = 1
       /\ DeclaredValues(HeldPrimitives[1]) = <<>>
       /\ \A i \in 1..Len(HeldLists) :
             /\ LowerLocalTag(HeldPrimitives[1]) # Str("hexbinary")
             /\ \A k \in 1..Len(HeldLists[i].kids) :
                   LowerLocalTag(HeldLists[i].kids[k]) \in PrimitiveKinds
    THEN HeldPrimitives ELSE <<>>

\* C17: refinement equivalence: the inline extractor renders a primitive with the size
\* and range rules of the chain resolver (a pair as min:max, a lower bound alone as
\* min:, an upper bound alone as max, several size entries comma-joined in declaration
\* order), and a list of item kind K renders as a non-list K with the same constraints.
InlineMatchesResolver ==
    (pc = "template" /\ InlinePrimitive # <<>>) =>
        param_data.Data_Type = extract_type_info(InlinePrimitive[1])

\* the embedded description text of the rendered parameter, when it has exactly one
\* description child and the documentation index is empty (length 0 or 1)
MacroSource ==
    IF html = <<>> /\ Len(DescriptionChildren(RenderedParameter)) = 1
    THEN <<DescriptionChildren(RenderedParameter)[1].text>> ELSE <<>>

\* the text a description is to come out as: each macro replaced by what the family
\* of the macro stands for, the {{object}} inside a reference by the object path
\* without its trailing separator
MacroOutcome(text, object_path) ==
    LET path == rstrip(object_path, Dot)
    IN  CASE text = Str("See {{reference|the {{object}} table}} now")
                 -> Str("See the ") \o path \o Str(" table now")
          [] text = Str("{{reference|{{object}}}}") -> path
          [] text = Str("A {{reference|plain}} b") -> Str("A plain b")
          [] text = Str("A {{param|Enable}} b") -> Str("A Enable b")
          [] text = Str("A {{object|Device.X.}} b") -> Str("A Device.X. b")
          [] text = Str("A {{bibref|RFC1}} b") -> Str("A RFC1 b")
          [] text = Str("A {{empty}} b") -> Str("A an empty string b")
          [] text = Str("A {{unknown}} b") -> Str("A b")
          [] text = Str("A {{unknown|X}} b") -> Str("A b")
          [] OTHER -> text

\* C18: macro substitution: {{reference|X}} gives X with an embedded {{object}}
\* replaced by the path of the current object without its trailing separator, no stray
\* brace left; {{param|X}}, {{object|X}} and {{bibref|X}} give X; {{empty}} gives
\* "an empty string"; an unknown macro gives the empty string.
MacroSubstitution ==
    (pc = "template" /\ MacroSource # <<>> /\ MacroSource[1] \in {Str(t) : t \in MacroTexts}) =>
        /\ param_data.Description
               = MacroOutcome(MacroSource[1], GetOr(objects_found[oi], "name"))
        /\ ~Contains(param_data.Description, Str("{{"))
        /\ ~Contains(param_data.Description, Str("}}"))

\* the macro substitution on the descriptions that nest no macro in another
FlatMacroSubstitution ==
    (pc = "template" /\ MacroSource # <<>> /\ MacroSource[1] \in {Str(t) : t \in MacroTexts}
        /\ ~Contains(MacroSource[1], Str("{{object}}"))) =>
        param_data.Description
            = MacroOutcome(MacroSource[1], GetOr(objects_found[oi], "name"))

\* a name without its spaces and without the separators at its ends
Trimmed(x) == strip(replace(x, Str(" "), <<>>), Dot)

\* C19: full path sanitization: the Full Path of a parameter record is the object path
\* joined to the parameter name by exactly one separator; it never holds two
\* consecutive separators and never starts or ends with a separator, whatever stray
\* separators or spaces the object path or the parameter name carry.
FullPathSanitized ==
    \A i \in ParamRecords :
        LET full_path == all_data[i].Full_Path
            object_path == Trimmed(all_data[i].Object_Name)
            name == Trimmed(all_data[i].Parameter_Name)
        IN  /\ ~Contains(full_path, Str(".."))
            /\ ~startswith(full_path, Str("."))
            /\ ~endswith(full_path, Str("."))
            /\ (Truthy(object_path) /\ Truthy(name)) =>
                   full_path = object_path \o Str(".") \o name

\* the sanitization on the records whose parameter name starts with no separator
FullPathOfPlainNames ==
    \A i \in ParamRecords :
        ~startswith(Trimmed(all_data[i].Parameter_Name), Str(".")) =>
            LET full_path == all_data[i].Full_Path
            IN  /\ ~startswith(full_path, Str("."))
                /\ ~endswith(full_path, Str("."))

\* the records of all_data that are objects
ObjectRecords == {i \in 1..Len(all_data) : all_data[i].Is_Object}

\* the description the four-step reconciler gives an object: the exact match, the
\* relaxed match, the embedded text with its macros substituted, the sentinel
ReconciledDescription(obj_elem, html_descriptions) ==
    LET name == GetOr(obj_elem, "name")
        normalized == normalize_path(IF endswith(name, Str(".")) THEN name
                                     ELSE name \o Str("."))
        relaxed == RelaxedMatches(html_descriptions, normalized)
        descs == DescriptionChildren(obj_elem)
        embedded == IF descs = <<>> THEN <<>>
                    ELSE clean_text(substitute_macros(itertext(descs[Len(descs)]), <<>>, name))
    IN  IF DictHas(html_descriptions, normalized) THEN DictGet(html_descriptions, normalized)
        ELSE IF relaxed # <<>> THEN relaxed[1].val
        ELSE IF Truthy(embedded) THEN embedded
        ELSE Sentinel

\* C20: object descriptions are resolved by the four-step reconciler of the
\* parameters: exact match, relaxed match, embedded text with macros substituted,
\* sentinel; the Description of an object record is never empty.
ObjectDescriptionReconciled ==
    \A i \in ObjectRecords :
        /\ all_data[i].Description # <<>>
        /\ all_data[i].Description
               = ReconciledDescription(objects_found[emitted[i][1]], html)

\* the exact match, the one step the object records take as the reconciler does
ObjectExactMatch ==
    \A i \in ObjectRecords :
        LET obj_elem == objects_found[emitted[i][1]]
            name == GetOr(obj_elem, "name")
            normalized == normalize_path(IF endswith(name, Str(".")) THEN name
                                         ELSE name \o Str("."))
        IN  DictHas(html, normalized) => all_data[i].Description = DictGet(html, normalized)

\* the default children of the one syntax block of the rendered parameter
DefaultNodes ==
    LET syn == SyntaxChildren(RenderedParameter)
    IN  IF Len(syn) # 1 THEN <<>>
        ELSE SelectSeq(syn[1].kids, LAMBDA c : LowerLocalTag(c) = Str("default"))

\* what a default node supplies: its value attribute, or its text when it has none
DefaultValue(default_node) ==
    IF Get(default_node, "value") # None THEN Get(default_node, "value")
    ELSE IF Truthy(default_node.text) THEN strip(default_node.text, Whitespace)
    ELSE <<>>

\* the default law on the syntax blocks that do (TRUE) or do not (FALSE) name a
\* dataType reference
DefaultSuppliedWhere(referenced) ==
    ( /\ pc = "template"
      /\ Len(DefaultNodes) = 1
      /\ Truthy(NamedReference(RenderedParameter)) \in referenced ) =>
        param_data.Object_Default = DefaultValue(DefaultNodes[1])

\* C21: a default child of the syntax block supplies Object Default whatever its
\* position and however the type is given: before or after the type child, with a
\* dataType reference or an inline primitive, Object Default is the value attribute
\* of the default node (its text when the attribute is absent).
DefaultIndependentOfPosition == DefaultSuppliedWhere({TRUE, FALSE})

\* the default law where the type is given inline
InlineDefaultSupplied == DefaultSuppliedWhere({FALSE})

\* the default law where the default node is the first child of the syntax block
DefaultFirstSupplied ==
    ( /\ pc = "template"
      /\ Len(DefaultNodes) = 1
      /\ DefaultNodes[1] = SyntaxChildren(RenderedParameter)[1].kids[1] ) =>
        param_data.Object_Default = DefaultValue(DefaultNodes[1])

====
